---------------------------- MODULE Spec2Model ----------------------------
(***************************************************************************)
(* Redirect Inspector: the chain-tracking state machine of                 *)
(* src/background/chains.ts, the record builder and classifier of          *)
(* src/background/classify.ts and the URL heuristics of                    *)
(* src/background/helpers.ts.                                              *)
(*                                                                         *)
(* JavaScript values are encoded as follows.  Optional strings use the     *)
(* sentinels Undefined and Null; the optional boolean `noise` is one of    *)
(* "true", "false", Undefined; an optional object is a sequence of length  *)
(* 0 (null) or 1; a timer handle is 0 (null) or the delay it was armed     *)
(* with; status codes are strings ("301", "JS", "HSTS").  A URL is a       *)
(* string whose parse (the platform's `new URL`) is the table UrlTable;    *)
(* text that the code searches with includes/startsWith/endsWith is a      *)
(* sequence of atoms (host labels, path segments, extensions).             *)
(***************************************************************************)
EXTENDS Integers, Sequences, FiniteSets, TLC

\* ------------------------------------------------------------------ bounds

\* Number of browser events (request, redirect, completion, error,
\* navigation, tab removal) delivered in one behaviour.
MaxClock == 4

\* ------------------------------------------------------- JavaScript values

Undefined == "undefined"
Null == "null"
NoTimestamp == -1
NoChain == ""

Truthy(s) == s # Undefined /\ s # Null /\ s # ""

\* a || b on optional strings
OrElse(a, b) == IF Truthy(a) THEN a ELSE b

Last(s) == s[Len(s)]

\* `const x = value; ...`: the value is computed once and named in what
\* follows
Let(value, In(_)) == CHOOSE result \in {In(x) : x \in {value}} : TRUE

RECURSIVE SeqContains(_, _)
SeqContains(s, x) ==
  IF s = <<>> THEN FALSE ELSE Head(s) = x \/ SeqContains(Tail(s), x)

IsPrefix(p, s) == Len(p) <= Len(s) /\ SubSeq(s, 1, Len(p)) = p

IsSuffix(p, s) ==
  Len(p) <= Len(s) /\ SubSeq(s, Len(s) - Len(p) + 1, Len(s)) = p

\* String.prototype.includes on atom sequences: p occurs contiguously in s
Includes(s, p) ==
  \E i \in 0..(Len(s) - Len(p)) : SubSeq(s, i + 1, i + Len(p)) = p

\* String.prototype.toLowerCase on the atoms the model uses
Lower(a) ==
  CASE a = "Content-Type" -> "content-type"
    [] a = "Content-Length" -> "content-length"
    [] a = "TEXT/HTML" -> "text/html"
    [] a = "Video/" -> "video/"
    [] a = "MEDIA" -> "media"
    [] a = ".GIF" -> ".gif"
    [] a = ".MP4" -> ".mp4"
    [] a = "Pixel" -> "pixel"
    [] OTHER -> a

LowerSeq(s) == [i \in 1..Len(s) |-> Lower(s[i])]

\* --------------------------------------------------------------- constants

MAX_RECORDS == 50
ACTIVE_CHAIN_TIMEOUT_MS == 5 * 60 * 1000
CLIENT_REDIRECT_DEFAULT_AWAIT_MS == 10 * 1000
CLIENT_REDIRECT_EXTENDED_AWAIT_MS == 15 * 1000
CHAIN_FINALIZATION_DELAY_MS == 250
BADGE_COUNTDOWN_TICK_MS == 1000
BADGE_SUCCESS_COLOR == "#16a34a"

TRACKING_KEYWORDS ==
  {"pixel", "track", "collect", "analytics", "impression", "beacon",
   "measure", "telemetry", "conversion", "retarget", "syndication"}

PIXEL_EXTENSIONS == {".gif", ".png", ".jpg", ".jpeg", ".webp", ".bmp", ".svg"}

MEDIA_EXTENSIONS ==
  {".mp4", ".webm", ".mkv", ".mov", ".m4v", ".m4a", ".mp3", ".aac", ".ogg",
   ".oga", ".ogv", ".wav", ".flac", ".m3u8", ".mpd", ".ts", ".m2ts"}

MEDIA_CONTENT_TYPE_PREFIXES == {"video/", "audio/"}

MEDIA_CONTENT_TYPE_INCLUDES ==
  {"application/vnd.apple.mpegurl", "application/x-mpegurl",
   "application/dash+xml"}

CLIENT_REDIRECT_AWAIT_TYPES == {"main_frame", "sub_frame"}

NON_NAVIGABLE_EXTENSIONS == {".js", ".mjs"}

LIKELY_BROWSER_PROTOCOLS == {"http:", "https:"}

NOISY_URL_PATTERNS ==
  { <<"cdn-cgi", "challenge-platform">>, <<"cdn-cgi", "challenge">>,
    <<"cdn-cgi", "bm">>, <<"cdn-cgi", "trace">>, <<"cdn-cgi", "zaraz">>,
    <<"cdn-cgi", "scripts">>, <<"pagead">>, <<"ads", "ga-audiences">>,
    <<"_vercel", "insights">> }

NOISY_HOST_SUFFIXES ==
  { <<"challenges", "cloudflare", "com">>,
    <<"googletagmanager", "com">>, <<"google-analytics", "com">>,
    <<"doubleclick", "net">>, <<"googlesyndication", "com">>,
    <<"googleadservices", "com">>, <<"adservice", "google", "com">>,
    <<"bat", "bing", "com">>, <<"clarity", "ms">>,
    <<"mc", "yandex", "ru">>, <<"mc", "yandex", "com">>,
    <<"an", "yandex", "ru">>, <<"adfox", "ru">>,
    <<"top-fwz1", "mail", "ru">>, <<"top", "mail", "ru">>,
    <<"connect", "facebook", "net">>, <<"facebook", "com">>,
    <<"tiktok", "com">>, <<"ads", "linkedin", "com">>,
    <<"snap", "licdn", "com">>, <<"ct", "pinterest", "com">>,
    <<"analytics", "twitter", "com">>, <<"pixel", "wp", "com">>,
    <<"criteo", "com">>, <<"criteo", "net">>, <<"adnxs", "com">>,
    <<"amazon-adsystem", "com">>, <<"taboola", "com">>,
    <<"outbrain", "com">>,
    <<"hotjar", "com">>, <<"mouseflow", "com">>, <<"fullstory", "com">>,
    <<"analytics", "yahoo", "com">>, <<"scorecardresearch", "com">>,
    <<"quantserve", "com">>, <<"nr-data", "net">>,
    <<"radar", "cedexis", "com">>,
    <<"cdn", "cookielaw", "org">>, <<"consent", "cookiebot", "com">> }

\* ------------------------------------------------------------------- URLs

\* The parse of each URL the model uses: protocol, hostname (labels), port,
\* pathname (segments, an extension being its own atom) and query atoms.
\* A string that `new URL` rejects has valid = FALSE and only its raw atoms.
Url(protocol, hostname, pathname, search) ==
  [valid |-> TRUE, protocol |-> protocol, hostname |-> hostname, port |-> "",
   pathname |-> pathname, raw |-> hostname \o pathname \o search]

BadUrl(raw) ==
  [valid |-> FALSE, protocol |-> "", hostname |-> <<>>, port |-> "",
   pathname |-> <<>>, raw |-> raw]

UrlTable ==
  ("http://x.com" :> Url("http:", <<"x", "com">>, <<>>, <<>>)) @@
  ("http://x.com/y" :> Url("http:", <<"x", "com">>, <<"y">>, <<>>)) @@
  ("https://x.com/y" :> Url("https:", <<"x", "com">>, <<"y">>, <<>>)) @@
  ("https://z.com/final" :> Url("https:", <<"z", "com">>, <<"final">>, <<>>)) @@
  ("https://z.com/app.js" :> Url("https:", <<"z", "com">>, <<"app", ".js">>, <<>>)) @@
  ("https://z.com/video.mp4" :>
     Url("https:", <<"z", "com">>, <<"video", ".mp4">>, <<>>)) @@
  ("https://z.com/Pixel.GIF" :>
     Url("https:", <<"z", "com">>, <<"Pixel", ".GIF">>, <<>>)) @@
  ("https://z.com/pixel.gif?track=1" :>
     Url("https:", <<"z", "com">>, <<"pixel", ".gif">>, <<"track", "1">>)) @@
  ("https://z.com/img.png" :> Url("https:", <<"z", "com">>, <<"img", ".png">>, <<>>)) @@
  ("https://www.google-analytics.com/collect" :>
     Url("https:", <<"www", "google-analytics", "com">>, <<"collect">>, <<>>)) @@
  ("https://x.com/cdn-cgi/challenge-platform/h" :>
     Url("https:", <<"x", "com">>, <<"cdn-cgi", "challenge-platform", "h">>, <<>>)) @@
  ("ftp://z.com/file" :> Url("ftp:", <<"z", "com">>, <<"file">>, <<>>)) @@
  ("not a url .mp4" :> BadUrl(<<"not", "a", "url", ".mp4">>))

KnownUrls == DOMAIN UrlTable

\* new URL(url): the parse, or a failed parse for anything that is no URL
ParseUrl(url) ==
  IF url \in KnownUrls THEN UrlTable[url] ELSE BadUrl(<<>>)

UrlHost(url) == <<ParseUrl(url).hostname, ParseUrl(url).port>>

isNoisyUrl(url) ==
  IF ~Truthy(url) THEN FALSE
  ELSE LET u == ParseUrl(url) IN
    IF ~u.valid THEN FALSE
    ELSE \/ \E p \in NOISY_URL_PATTERNS : Includes(u.pathname, p)
         \/ \E host \in NOISY_HOST_SUFFIXES : IsSuffix(host, u.hostname)

hasTrackingKeyword(url) ==
  IF ~Truthy(url) THEN FALSE
  ELSE LET lowerUrl == LowerSeq(ParseUrl(url).raw) IN
    \E keyword \in TRACKING_KEYWORDS : SeqContains(lowerUrl, keyword)

hasExtension(url, extensions) ==
  IF ~Truthy(url) THEN FALSE
  ELSE LET u == ParseUrl(url) IN
    IF u.valid
    THEN LET lowerPath == LowerSeq(u.pathname) IN
      \E extension \in extensions : IsSuffix(<<extension>>, lowerPath)
    ELSE LET lowerUrl == LowerSeq(u.raw) IN
      \E extension \in extensions : SeqContains(lowerUrl, extension)

hasPixelExtension(url) == hasExtension(url, PIXEL_EXTENSIONS)

hasMediaExtension(url) == hasExtension(url, MEDIA_EXTENSIONS)

isLikelyBrowserUrl(url) ==
  IF ~Truthy(url) THEN FALSE
  ELSE LET parsed == ParseUrl(url) IN
    IF ~parsed.valid THEN FALSE
    ELSE LET pathname == LowerSeq(parsed.pathname) IN
      IF parsed.protocol \notin LIKELY_BROWSER_PROTOCOLS THEN FALSE
      ELSE IF \E extension \in NON_NAVIGABLE_EXTENSIONS :
                IsSuffix(<<extension>>, pathname)
      THEN FALSE
      ELSE TRUE

\* sameHost that takes every two urls to be of one host
sameHost_Always(a, b) == TRUE

sameHost(a, b) ==
  IF ParseUrl(a).valid /\ ParseUrl(b).valid
  THEN UrlHost(a) = UrlHost(b)
  ELSE FALSE

normalizeForComparison(value) ==
  IF value = Undefined \/ value = Null THEN "" ELSE value

\* new Date(ms).toISOString(); `now` stands for the wall clock
formatTimestamp(timestampMs, now) ==
  IF timestampMs # NoTimestamp
  THEN "T" \o ToString(timestampMs)
  ELSE "T" \o ToString(now)


\* ----------------------------------------------------- response headers

\* Number.parseInt(value, 10) on the header values the model uses; every
\* other atom parses to NaN
NumericAtoms == {"0", "512", "2048", "2049", "4096", "-5"}

ParseInt(atom) ==
  CASE atom = "0" -> 0
    [] atom = "512" -> 512
    [] atom = "2048" -> 2048
    [] atom = "2049" -> 2049
    [] atom = "4096" -> 4096
    [] atom = "-5" -> -5

NoLength == -1

Header(name, value) == [name |-> name, value |-> value]

RECURSIVE getHeaderValue(_, _)
getHeaderValue(headers, headerName) ==
  IF headers = <<>> \/ ~Truthy(headerName) THEN <<>>
  ELSE IF Lower(Head(headers).name) = Lower(headerName)
       THEN Head(headers).value
       ELSE getHeaderValue(Tail(headers), headerName)

parseContentLength(value) ==
  IF value = <<>> THEN NoLength
  ELSE IF value[1] \notin NumericAtoms THEN NoLength
  ELSE LET parsed == ParseInt(value[1]) IN
    IF parsed >= 0 THEN parsed ELSE NoLength

isMediaContentType(contentType) ==
  LET lower == LowerSeq(contentType) IN
    \/ \E prefix \in MEDIA_CONTENT_TYPE_PREFIXES : IsPrefix(<<prefix>>, lower)
    \/ \E needle \in MEDIA_CONTENT_TYPE_INCLUDES : SeqContains(lower, needle)

\* ------------------------------------------------------------- hop events

Event(timestamp, timestampMs, from, to, statusCode, method, ip, type, noise,
      noiseReason) ==
  [timestamp |-> timestamp, timestampMs |-> timestampMs, from |-> from,
   to |-> to, statusCode |-> statusCode, method |-> method, ip |-> ip,
   type |-> type, noise |-> noise, noiseReason |-> noiseReason]

classifyEventLikeHop(event) ==
  IF Truthy(event.to) /\ isNoisyUrl(event.to)
  THEN [event EXCEPT
          !.noise = "true",
          !.noiseReason =
            IF \/ SeqContains(ParseUrl(event.to).raw, "cdn-cgi")
               \/ Includes(ParseUrl(event.to).raw,
                           <<"challenges", "cloudflare", "com">>)
            THEN "cloudflare-challenge"
            ELSE "analytics"]
  ELSE [event EXCEPT !.noise = "false", !.noiseReason = Null]

eventsDescribeSameHop(a, b) ==
  /\ normalizeForComparison(a.from) = normalizeForComparison(b.from)
  /\ normalizeForComparison(a.to) = normalizeForComparison(b.to)
  /\ normalizeForComparison(a.statusCode) = normalizeForComparison(b.statusCode)
  /\ normalizeForComparison(a.method) = normalizeForComparison(b.method)
  /\ normalizeForComparison(a.type) = normalizeForComparison(b.type)

mergeEventDetails(target, update) ==
  LET Pick(new, old) == IF new # Undefined THEN new ELSE old IN
  [timestamp |-> Pick(update.timestamp, target.timestamp),
   timestampMs |-> IF update.timestampMs # NoTimestamp
                   THEN update.timestampMs ELSE target.timestampMs,
   from |-> Pick(update.from, target.from),
   to |-> Pick(update.to, target.to),
   statusCode |-> Pick(update.statusCode, target.statusCode),
   method |-> Pick(update.method, target.method),
   ip |-> Pick(update.ip, target.ip),
   type |-> Pick(update.type, target.type),
   noise |-> Pick(update.noise, target.noise),
   noiseReason |-> Pick(update.noiseReason, target.noiseReason)]

\* normalizeEventForRecord that stamps an event without timestampMs with the
\* wall clock instead of keeping its timestamp
normalizeEventForRecord_Restamps(event, now) ==
  [timestamp |-> formatTimestamp(event.timestampMs, now),
   from |-> event.from,
   to |-> event.to,
   statusCode |-> event.statusCode,
   method |-> event.method,
   ip |-> event.ip,
   type |-> event.type,
   noise |-> IF event.noise = "true" THEN "true" ELSE "false",
   noiseReason |-> OrElse(event.noiseReason, Undefined)]

\* The persisted shape of a hop: no timestampMs, noise a strict boolean.
normalizeEventForRecord(event, now) ==
  [timestamp |->
     IF event.timestampMs # NoTimestamp
     THEN formatTimestamp(event.timestampMs, now)
     ELSE IF event.timestamp # Undefined /\ event.timestamp # Null
          THEN event.timestamp
          ELSE formatTimestamp(NoTimestamp, now),
   from |-> event.from,
   to |-> event.to,
   statusCode |-> event.statusCode,
   method |-> event.method,
   ip |-> event.ip,
   type |-> event.type,
   noise |-> IF event.noise = "true" THEN "true" ELSE "false",
   noiseReason |-> OrElse(event.noiseReason, Undefined)]

\* The comparator of the sort: an event without timestampMs counts as
\* +Infinity; TimeLess(a, b) is "compare(a, b) < 0".
TimeLess(a, b) ==
  /\ a.timestampMs # NoTimestamp
  /\ (b.timestampMs = NoTimestamp \/ a.timestampMs < b.timestampMs)

RECURSIVE InsertSorted(_, _)
InsertSorted(sorted, e) ==
  IF sorted = <<>> THEN <<e>>
  ELSE IF TimeLess(e, Last(sorted))
       THEN Append(InsertSorted(SubSeq(sorted, 1, Len(sorted) - 1), e),
                   Last(sorted))
       ELSE Append(sorted, e)

\* Array.prototype.sort with that comparator (a stable sort)
RECURSIVE SortByTime(_)
SortByTime(events) ==
  IF events = <<>> THEN <<>>
  ELSE Let(SortByTime(SubSeq(events, 1, Len(events) - 1)),
           LAMBDA sorted : InsertSorted(sorted, Last(events)))

IsNoisyEvent(event) == event.noise = "true"

MapNormalize(events, now) ==
  [i \in 1..Len(events) |-> normalizeEventForRecord(events[i], now)]

\* prepareEventsForRecord that never reports an all-noise chain
prepareEventsForRecord_NeverAllNoisy(events, now) ==
  LET sortedEvents == SortByTime(events)
      nonNoisyEvents ==
        SelectSeq(sortedEvents, LAMBDA e : ~IsNoisyEvent(e))
      eventsForRecord ==
        IF Len(nonNoisyEvents) > 0 THEN nonNoisyEvents ELSE sortedEvents
  IN [normalizedEvents |-> MapNormalize(eventsForRecord, now),
      normalizedNoiseEvents |->
        MapNormalize(SelectSeq(sortedEvents, IsNoisyEvent), now),
      allEventsNoisy |-> FALSE,
      firstEvent |->
        IF eventsForRecord = <<>> THEN <<>> ELSE <<eventsForRecord[1]>>,
      lastEvent |->
        IF eventsForRecord = <<>> THEN <<>> ELSE <<Last(eventsForRecord)>>]

\* prepareEventsForRecord that keeps the noisy events among the record's
prepareEventsForRecord_KeepsNoise(events, now) ==
  LET sortedEvents == SortByTime(events) IN
    [normalizedEvents |-> MapNormalize(sortedEvents, now),
     normalizedNoiseEvents |->
       MapNormalize(SelectSeq(sortedEvents, IsNoisyEvent), now),
     allEventsNoisy |->
       /\ Len(sortedEvents) > 0
       /\ \A i \in 1..Len(sortedEvents) : IsNoisyEvent(sortedEvents[i]),
     firstEvent |->
       IF sortedEvents = <<>> THEN <<>> ELSE <<sortedEvents[1]>>,
     lastEvent |->
       IF sortedEvents = <<>> THEN <<>> ELSE <<Last(sortedEvents)>>]

prepareEventsForRecord(events, now) ==
  LET sortedEvents == SortByTime(events)
      noisyEvents == SelectSeq(sortedEvents, IsNoisyEvent)
      nonNoisyEvents ==
        SelectSeq(sortedEvents, LAMBDA e : ~IsNoisyEvent(e))
      eventsForRecord ==
        IF Len(nonNoisyEvents) > 0 THEN nonNoisyEvents ELSE sortedEvents
      normalizedEvents == MapNormalize(eventsForRecord, now)
      normalizedNoiseEvents == MapNormalize(noisyEvents, now)
  IN [normalizedEvents |-> normalizedEvents,
      normalizedNoiseEvents |-> normalizedNoiseEvents,
      allEventsNoisy |->
        /\ Len(normalizedEvents) > 0
        /\ \A i \in 1..Len(normalizedEvents) :
             normalizedEvents[i].noise = "true",
      firstEvent |->
        IF eventsForRecord = <<>> THEN <<>> ELSE <<eventsForRecord[1]>>,
      lastEvent |->
        IF eventsForRecord = <<>> THEN <<>> ELSE <<Last(eventsForRecord)>>]


\* ------------------------------------------------- record, final URL, class

\* Map.get on a map kept as a function: the value, or `absent`
MapGet(map, key, absent) == IF key \in DOMAIN map THEN map[key] ELSE absent

\* candidates.filter((c, i) => c && candidates.indexOf(c) === i)
UniqueCandidates(candidates) ==
  LET Keep(i) == /\ Truthy(candidates[i])
                 /\ \A j \in 1..(i - 1) : candidates[j] # candidates[i]
      RECURSIVE Build(_)
      Build(i) ==
        IF i > Len(candidates) THEN <<>>
        ELSE (IF Keep(i) THEN <<candidates[i]>> ELSE <<>>) \o Build(i + 1)
  IN Build(1)

\* tabLastCommittedUrl.get(record.tabId) for a record of a tab
CommittedUrlOf(record, committed) ==
  IF record.tabId >= 0
  THEN MapGet(committed, record.tabId, Undefined) ELSE Undefined

\* the candidates of resolveFinalUrl, in the order the code pushes them
FinalUrlCandidates(record, completionDetails, committed) ==
  LET \* [...items].reverse().find(Test): <<item>> or <<>>
      FindLast(items, Test(_)) ==
        LET hits == {i \in 1..Len(items) : Test(items[i])} IN
          IF hits = {} THEN <<>>
          ELSE <<items[CHOOSE i \in hits : \A j \in hits : j <= i]>>
      completionType == completionDetails.type
      completionUrl == completionDetails.url
      isNavigationCompletion ==
        completionType = "main_frame" \/ completionType = "sub_frame"
      navigationalEvent ==
        FindLast(record.events,
                 LAMBDA event :
                   /\ Truthy(event.to)
                   /\ (\/ event.type = "client-redirect"
                       \/ event.type = "main_frame"
                       \/ event.method = "CLIENT"))
      committedUrl == CommittedUrlOf(record, committed)
  IN (IF isNavigationCompletion /\ Truthy(completionUrl)
      THEN <<completionUrl>> ELSE <<>>) \o
     (IF navigationalEvent # <<>>
      THEN <<navigationalEvent[1].to>> ELSE <<>>) \o
     (IF record.events # <<>> /\ Truthy(Last(record.events).to)
      THEN <<Last(record.events).to>> ELSE <<>>) \o
     (IF Truthy(committedUrl) THEN <<committedUrl>> ELSE <<>>) \o
     (IF Truthy(completionUrl) THEN <<completionUrl>> ELSE <<>>) \o
     (IF Truthy(record.initialUrl) THEN <<record.initialUrl>> ELSE <<>>)

\* the choice resolveFinalUrl makes among the unique candidates
PreferredFinalUrl(uniqueCandidates, record, completionDetails, committed) ==
  LET \* items.find(Test): <<item>> or <<>>
      FindFirst(items, Test(_)) ==
        LET hits == {i \in 1..Len(items) : Test(items[i])} IN
          IF hits = {} THEN <<>>
          ELSE <<items[CHOOSE i \in hits : \A j \in hits : i <= j]>>
      preferred ==
        FindFirst(uniqueCandidates,
                  LAMBDA c : isLikelyBrowserUrl(c) /\ ~isNoisyUrl(c))
      fallbackBrowser == FindFirst(uniqueCandidates, isLikelyBrowserUrl)
      committedUrl == CommittedUrlOf(record, committed)
  IN IF preferred # <<>> THEN preferred[1]
     ELSE IF fallbackBrowser # <<>> THEN fallbackBrowser[1]
     ELSE IF Len(uniqueCandidates) > 0 THEN uniqueCandidates[1]
     ELSE IF Truthy(committedUrl) THEN committedUrl
     ELSE IF Truthy(record.initialUrl) THEN record.initialUrl
     ELSE IF Truthy(completionDetails.url) THEN completionDetails.url
     ELSE Null

\* resolveFinalUrl that returns the first candidate without looking for a
\* navigable one
resolveFinalUrl_FirstCandidate(record, completionDetails, committed) ==
  Let(UniqueCandidates(FinalUrlCandidates(record, completionDetails, committed)),
      LAMBDA uniqueCandidates :
        IF Len(uniqueCandidates) > 0 THEN uniqueCandidates[1] ELSE Null)

resolveFinalUrl(record, completionDetails, committed) ==
  Let(FinalUrlCandidates(record, completionDetails, committed),
      LAMBDA candidates :
  Let(UniqueCandidates(candidates),
      LAMBDA uniqueCandidates :
  PreferredFinalUrl(uniqueCandidates, record, completionDetails, committed)))

\* The reasons a record counts as media, in the order the code pushes them
MediaReasons(events, finalUrl, completionType, normalizedContentType) ==
  (IF \E i \in 1..Len(events) : events[i].type = "media"
   THEN <<"media request in chain">> ELSE <<>>) \o
  (IF completionType # Undefined /\ Lower(completionType) = "media"
   THEN <<"final resource is media">> ELSE <<>>) \o
  (IF hasMediaExtension(finalUrl)
   THEN <<"media file extension">> ELSE <<>>) \o
  (IF isMediaContentType(normalizedContentType)
   THEN <<"media content-type">> ELSE <<>>)

\* The tracking heuristics that matched, in the order the code pushes them
TrackingHeuristics(events, finalUrl, completionType, contentType, length) ==
  (IF Len(events) <= 1 THEN <<"single hop chain">> ELSE <<>>) \o
  (IF Len(events) > 0 /\ \A i \in 1..Len(events) : events[i].type = "image"
   THEN <<"all hops are image requests">> ELSE <<>>) \o
  (IF hasPixelExtension(finalUrl)
   THEN <<"image file extension">> ELSE <<>>) \o
  (IF hasTrackingKeyword(finalUrl)
   THEN <<"tracking keyword in URL">> ELSE <<>>) \o
  (IF isNoisyUrl(finalUrl)
   THEN <<"noisy url (cf/analytics)">> ELSE <<>>) \o
  (IF completionType = "image"
   THEN <<"final resource is an image">> ELSE <<>>) \o
  (IF SeqContains(contentType, "image/")
   THEN <<"image content-type">> ELSE <<>>) \o
  (IF length # NoLength /\ length <= 2048
   THEN <<"tiny response size">> ELSE <<>>)

\* classifyRecord that looks at the tracking heuristics before the media
\* reasons
classifyRecord_TrackingFirst(record, completionDetails) ==
  LET finalUrl == OrElse(record.finalUrl, "")
      contentTypeHeader ==
        getHeaderValue(completionDetails.responseHeaders, "content-type")
      contentLength ==
        parseContentLength(
          getHeaderValue(completionDetails.responseHeaders, "content-length"))
      mediaReasons ==
        MediaReasons(record.events, finalUrl, completionDetails.type,
                     LowerSeq(contentTypeHeader))
      heuristics ==
        TrackingHeuristics(record.events, finalUrl, completionDetails.type,
                           LowerSeq(contentTypeHeader), contentLength)
  IN [classification |->
        IF Len(heuristics) >= 2 THEN "likely-tracking"
        ELSE IF Len(mediaReasons) > 0 THEN "likely-media" ELSE "normal",
      classificationReason |->
        IF Len(heuristics) >= 2 THEN heuristics ELSE mediaReasons,
      contentType |-> contentTypeHeader,
      contentLength |-> contentLength]

\* classifyRecord that calls a record likely-tracking as soon as one
\* tracking heuristic matches
classifyRecord_OneHeuristic(record, completionDetails) ==
  LET finalUrl == OrElse(record.finalUrl, "")
      contentTypeHeader ==
        getHeaderValue(completionDetails.responseHeaders, "content-type")
      contentLength ==
        parseContentLength(
          getHeaderValue(completionDetails.responseHeaders, "content-length"))
      mediaReasons ==
        MediaReasons(record.events, finalUrl, completionDetails.type,
                     LowerSeq(contentTypeHeader))
      heuristics ==
        TrackingHeuristics(record.events, finalUrl, completionDetails.type,
                           LowerSeq(contentTypeHeader), contentLength)
  IN [classification |->
        IF Len(mediaReasons) > 0 THEN "likely-media"
        ELSE IF Len(heuristics) >= 1 THEN "likely-tracking" ELSE "normal",
      classificationReason |->
        IF Len(mediaReasons) > 0 THEN mediaReasons ELSE heuristics,
      contentType |-> contentTypeHeader,
      contentLength |-> contentLength]

\* classificationReason is the list of reasons the code joins with "; "
\* (empty: undefined); contentType <<>> is undefined, contentLength NoLength
\* is null.
classifyRecord(record, completionDetails) ==
  LET events == record.events
      finalUrl == OrElse(record.finalUrl, "")
      contentTypeHeader ==
        getHeaderValue(completionDetails.responseHeaders, "content-type")
      contentType == contentTypeHeader
      normalizedContentType == LowerSeq(contentTypeHeader)
      contentLength ==
        parseContentLength(
          getHeaderValue(completionDetails.responseHeaders, "content-length"))
      mediaReasons ==
        MediaReasons(events, finalUrl, completionDetails.type,
                     normalizedContentType)
      heuristics ==
        TrackingHeuristics(events, finalUrl, completionDetails.type,
                           normalizedContentType, contentLength)
      classification ==
        IF Len(heuristics) >= 2 THEN "likely-tracking" ELSE "normal"
  IN IF Len(mediaReasons) > 0
     THEN [classification |-> "likely-media",
           classificationReason |-> mediaReasons,
           contentType |-> contentType,
           contentLength |-> contentLength]
     ELSE [classification |-> classification,
           classificationReason |->
             IF classification = "likely-tracking" THEN heuristics ELSE <<>>,
           contentType |-> contentType,
           contentLength |-> contentLength]


\* ------------------------------------------------------- session grouping

NOISE_CLASSIFICATIONS == {"likely-tracking", "likely-media"}

SESSION_WINDOW_MS == 60000

\* The initiation times, in ms, of the records the grouping is given
SessionTimes == {0, 60000, 120000}

\* new Date(text).getTime(): <<ms>>, or <<>> for NaN; the inverse of
\* formatTimestamp on the times above, NaN for every other text
DateGetTime(text) ==
  LET hits == {ms \in SessionTimes : formatTimestamp(ms, ms) = text} IN
    IF hits = {} THEN <<>> ELSE <<CHOOSE ms \in hits : TRUE>>

recordTimestamp(record) ==
  IF Truthy(record.initiatedAt) /\ DateGetTime(record.initiatedAt) # <<>>
  THEN DateGetTime(record.initiatedAt)[1]
  ELSE 0

isNoise(record) == record.classification \in NOISE_CLASSIFICATIONS

hopCount(record) == Len(record.events)

\* primaryComparator that ranks by hop count before it looks at noise
primaryComparator_HopsFirst(a, b) ==
  IF hopCount(a) # hopCount(b) THEN hopCount(b) - hopCount(a)
  ELSE IF isNoise(a) # isNoise(b)
  THEN (IF isNoise(a) THEN 1 ELSE 0) - (IF isNoise(b) THEN 1 ELSE 0)
  ELSE recordTimestamp(a) - recordTimestamp(b)

\* negative if `a` is preferred over `b`
primaryComparator(a, b) ==
  LET aNoise == IF isNoise(a) THEN 1 ELSE 0
      bNoise == IF isNoise(b) THEN 1 ELSE 0
      aHops == hopCount(a)
      bHops == hopCount(b)
  IN IF aNoise # bNoise THEN aNoise - bNoise
     ELSE IF aHops # bHops THEN bHops - aHops
     ELSE recordTimestamp(a) - recordTimestamp(b)

\* Array.prototype.sort, a stable sort, as the order it puts the positions
\* 1..n in; compare[i][j] is what the comparator returns for the items at
\* positions i and j
RECURSIVE InsertByComparator(_, _, _)
InsertByComparator(order, i, compare) ==
  IF order = <<>> THEN <<i>>
  ELSE IF compare[i][Last(order)] < 0
       THEN Append(InsertByComparator(SubSeq(order, 1, Len(order) - 1), i,
                                      compare),
                   Last(order))
       ELSE Append(order, i)

RECURSIVE SortedPositions(_, _)
SortedPositions(n, compare) ==
  IF n = 0 THEN <<>>
  ELSE Let(SortedPositions(n - 1, compare),
           LAMBDA order : InsertByComparator(order, n, compare))

\* records.slice().sort(primaryComparator)[0]
selectPrimary(records) ==
  records[SortedPositions(Len(records),
            [i \in DOMAIN records |->
               [j \in DOMAIN records |->
                  primaryComparator(records[i], records[j])]])[1]]

\* new URL(url).host, or '' (here <<>>) when the URL does not parse
getHost(url) == IF ParseUrl(url).valid THEN UrlHost(url) ELSE <<>>

getChainHosts(record) ==
  ({getHost(record.initialUrl), getHost(record.finalUrl),
    getHost(record.initiator)}
   \cup {getHost(record.events[i].from) : i \in DOMAIN record.events}
   \cup {getHost(record.events[i].to) : i \in DOMAIN record.events}) \ {<<>>}

\* hasHostOverlap that holds for any two host sets
hasHostOverlap_Always(a, b) == TRUE

hasHostOverlap(a, b) == \E h \in a : h \in b

SessionGroup(tabId, primary, satellites) ==
  [tabId |-> tabId, primary |-> primary, satellites |-> satellites]

\* partitionByAffinity that does not partition the records left over
partitionByAffinity_DropsRest(records, tabId) ==
  IF Len(records) = 0 THEN <<>>
  ELSE
    Let(selectPrimary(records),
        LAMBDA primary :
      <<SessionGroup(tabId, primary,
          SelectSeq(records,
            LAMBDA r :
              /\ r # primary
              /\ hasHostOverlap(getChainHosts(primary),
                                getChainHosts(r))))>>)

\* the groups partitionByAffinity pushes to `out`, in order
RECURSIVE partitionByAffinity(_, _)
partitionByAffinity(records, tabId) ==
  IF Len(records) = 0 THEN <<>>
  ELSE IF Len(records) = 1
  THEN <<SessionGroup(tabId, records[1], <<>>)>>
  ELSE
    Let(selectPrimary(records),
        LAMBDA primary :
    Let(getChainHosts(primary),
        LAMBDA primaryHosts :
    Let(SelectSeq(records, LAMBDA r : r # primary),
        LAMBDA others :
      <<SessionGroup(tabId, primary,
          SelectSeq(others,
            LAMBDA r : hasHostOverlap(primaryHosts, getChainHosts(r))))>>
      \o partitionByAffinity(
           SelectSeq(others,
             LAMBDA r : ~hasHostOverlap(primaryHosts, getChainHosts(r))),
           tabId))))

\* the records buildSessionGroups makes a group of their own, whatever
\* else is in the list: pending ones only
IsSingleton_PendingOnly(record) == record.pending

\* the records buildSessionGroups makes a group of their own
IsSingleton(record) ==
  record.pending \/ record.tabId = -1 \/ record.tabId = 0

\* the keys of `buckets`, in the order the Map got them
BucketTabs(records) ==
  LET Keep(i) == \A j \in 1..(i - 1) : records[j].tabId # records[i].tabId
      RECURSIVE Build(_)
      Build(i) ==
        IF i > Len(records) THEN <<>>
        ELSE (IF Keep(i) THEN <<records[i].tabId>> ELSE <<>>) \o Build(i + 1)
  IN Build(1)

\* bucket.sort((a, b) => recordTimestamp(a) - recordTimestamp(b))
SortBucket(bucket) ==
  Let(SortedPositions(Len(bucket),
        [i \in DOMAIN bucket |->
           [j \in DOMAIN bucket |->
              recordTimestamp(bucket[i]) - recordTimestamp(bucket[j])]]),
      LAMBDA order : [n \in DOMAIN bucket |-> bucket[order[n]]])

\* the clusters of a sorted bucket: a record joins the current cluster when
\* it starts at most SESSION_WINDOW_MS after the cluster's last record
TimeClusters(bucket) ==
  LET RECURSIVE Build(_, _, _)
      Build(i, clusters, currentCluster) ==
        IF i > Len(bucket)
        THEN IF Len(currentCluster) > 0
             THEN Append(clusters, currentCluster) ELSE clusters
        ELSE IF Len(currentCluster) = 0
        THEN Build(i + 1, clusters, <<bucket[i]>>)
        ELSE IF recordTimestamp(bucket[i])
                  - recordTimestamp(Last(currentCluster)) <= SESSION_WINDOW_MS
        THEN Build(i + 1, clusters, Append(currentCluster, bucket[i]))
        ELSE Build(i + 1, Append(clusters, currentCluster), <<bucket[i]>>)
  IN Build(1, <<>>, <<>>)

\* the groups of one tab's bucket
BucketGroups(bucket, tabId) ==
  LET clusters == TimeClusters(SortBucket(bucket))
      RECURSIVE Build(_)
      Build(i) ==
        IF i > Len(clusters) THEN <<>>
        ELSE partitionByAffinity(clusters[i], tabId) \o Build(i + 1)
  IN Build(1)

CompletedGroups(records) ==
  LET bucketed == SelectSeq(records, LAMBDA r : ~IsSingleton(r))
      tabs == BucketTabs(bucketed)
      RECURSIVE Build(_)
      Build(i) ==
        IF i > Len(tabs) THEN <<>>
        ELSE BucketGroups(SelectSeq(bucketed, LAMBDA r : r.tabId = tabs[i]),
                          tabs[i])
             \o Build(i + 1)
  IN Build(1)

Singletons(records) ==
  LET alone == SelectSeq(records, IsSingleton) IN
    [i \in DOMAIN alone |-> SessionGroup(alone[i].tabId, alone[i], <<>>)]

\* the noise filter that leaves the satellite lists as they are
FilterNoise_KeepsSatellites(singletons, completedGroups) ==
  SelectSeq(singletons, LAMBDA group : ~isNoise(group.primary)) \o
  SelectSeq(completedGroups, LAMBDA group : ~isNoise(group.primary))

\* the groups left when showingNoise is false
FilterNoise(singletons, completedGroups) ==
  LET kept == SelectSeq(completedGroups,
                        LAMBDA group : ~isNoise(group.primary))
  IN SelectSeq(singletons, LAMBDA group : ~isNoise(group.primary)) \o
     [i \in DOMAIN kept |->
        SessionGroup(kept[i].tabId, kept[i].primary,
                     SelectSeq(kept[i].satellites, LAMBDA r : ~isNoise(r)))]

\* groups.sort: pending first, then the newest primary first
SortGroups(groups) ==
  LET Pending(g) == IF g.primary.pending THEN 1 ELSE 0
      compare ==
        [i \in DOMAIN groups |->
           [j \in DOMAIN groups |->
              IF Pending(groups[i]) # Pending(groups[j])
              THEN Pending(groups[j]) - Pending(groups[i])
              ELSE recordTimestamp(groups[j].primary)
                     - recordTimestamp(groups[i].primary)]]
  IN Let(SortedPositions(Len(groups), compare),
         LAMBDA order : [n \in DOMAIN groups |-> groups[order[n]]])

buildSessionGroups(records, showingNoise) ==
  Let(Singletons(records),
      LAMBDA singletons :
  Let(CompletedGroups(records),
      LAMBDA completedGroups :
  SortGroups(IF showingNoise
             THEN singletons \o completedGroups
             ELSE FilterNoise(singletons, completedGroups))))

\* ------------------------------------------------------------------ state

VARIABLES
  chains,                 \* chain id -> Chain object, for every chain ever
                          \* created (closures and in-flight finalizations
                          \* keep the object after its removal)
  chainsById,             \* the ids that are keys of the chainsById map
  requestToChain,         \* request id -> chain id
  tabChains,              \* tab id -> chain id
  tabLastCommittedUrl,    \* tab id -> url
  pendingClientRedirects, \* tab id -> [chainId, fromUrl, startedAt]
  pendingRedirectTargets, \* <<tab part, url>> -> queue of chain ids
  tasks,                  \* finalizeChainRecord calls suspended at their await
  redirectLog,            \* storage.local[REDIRECT_LOG_KEY]
  clock,                  \* timeStamp of the next browser event
  appended,               \* history: record ids in the order storage wrote them
  cleared,                \* history: the records that were in the log when a
                          \* clear-log command completed
  closedAwaiting,         \* history: chains that were awaiting a client
                          \* redirect in a tab when that tab was removed
  finished,               \* request ids that got onCompleted or
                          \* onErrorOccurred: the browser sends no further
                          \* event for them
  requestAt,              \* request id -> [url, sent]: the url a request in
                          \* flight is at and whether the browser sent its
                          \* onBeforeRequest for that url
  callArgs,               \* the arguments of a call of a pure function
  callResult              \* what the call returned: <<value>>, or <<>>
                          \* before it returns

progVars ==
  <<chains, chainsById, requestToChain, tabChains, tabLastCommittedUrl,
    pendingClientRedirects, pendingRedirectTargets, tasks, redirectLog,
    clock, appended, cleared, closedAwaiting, finished, requestAt>>

pureVars == <<callArgs, callResult>>

vars == <<progVars, pureVars>>

EmptyMap == [x \in {} |-> 0]

MapSet(map, key, value) ==
  [x \in DOMAIN map \cup {key} |-> IF x = key THEN value ELSE map[x]]

MapDelete(map, key) == [x \in DOMAIN map \ {key} |-> map[x]]

\* crypto.randomUUID(): the n-th id handed out
ChainIdOf(n) == "c" \o ToString(n)

\* chains[c] := chain
SetChain(s, c, chain) == [s EXCEPT !.chains = MapSet(s.chains, c, chain)]

\* The in-memory state the handlers of chains.ts read and write, as one value
State ==
  [chains |-> chains,
   chainsById |-> chainsById,
   requestToChain |-> requestToChain,
   tabChains |-> tabChains,
   tabLastCommittedUrl |-> tabLastCommittedUrl,
   pendingClientRedirects |-> pendingClientRedirects,
   pendingRedirectTargets |-> pendingRedirectTargets,
   tasks |-> tasks,
   now |-> clock]

Commit(s) ==
  /\ chains' = s.chains
  /\ chainsById' = s.chainsById
  /\ requestToChain' = s.requestToChain
  /\ tabChains' = s.tabChains
  /\ tabLastCommittedUrl' = s.tabLastCommittedUrl
  /\ pendingClientRedirects' = s.pendingClientRedirects
  /\ pendingRedirectTargets' = s.pendingRedirectTargets
  /\ tasks' = s.tasks

\* ------------------------------------------------------ chain event helpers

\* appendEventToChain that overwrites the last stored event with any newer
\* one, whether or not the two describe the same hop
appendEventToChain_OverwritesLast(chain, event) ==
  IF Len(chain.events) >= 1
  THEN [chain EXCEPT
          !.events =
            [chain.events EXCEPT
               ![Len(chain.events)] =
                 mergeEventDetails(chain.events[Len(chain.events)], event)]]
  ELSE [chain EXCEPT !.events = Append(chain.events, event)]

appendEventToChain(chain, event) ==
  LET lastIndex == Len(chain.events) IN
    IF /\ lastIndex >= 1
       /\ eventsDescribeSameHop(chain.events[lastIndex], event)
    THEN [chain EXCEPT
            !.events =
              [chain.events EXCEPT
                 ![lastIndex] =
                   mergeEventDetails(chain.events[lastIndex], event)]]
    ELSE [chain EXCEPT !.events = Append(chain.events, event)]

\* ------------------------------------------------------------------ badge
\* The badge itself lives in the browser; what remains of these functions
\* is what they write into the chain.

\* the countdown stop without its clearInterval
stopAwaitingClientRedirectCountdown_KeepsInterval(chain) ==
  [chain EXCEPT !.awaitingClientRedirectDeadline = 0,
                !.awaitingBadgeToggle = FALSE]

stopAwaitingClientRedirectCountdown(chain) ==
  [chain EXCEPT !.awaitingClientRedirectInterval = 0,
                !.awaitingClientRedirectDeadline = 0,
                !.awaitingBadgeToggle = FALSE]

renderAwaitingBadge(chain, toggle) ==
  IF toggle
  THEN [chain EXCEPT !.awaitingBadgeToggle = ~chain.awaitingBadgeToggle]
  ELSE chain

updateBadgeForChain(chain) ==
  IF chain.awaitingBadgeFinalColor # Null /\ chain.tabId >= 0
  THEN [chain EXCEPT !.awaitingBadgeFinalColor = Null]
  ELSE IF /\ chain.awaitingClientRedirect
          /\ chain.awaitingClientRedirectDeadline # 0
       THEN renderAwaitingBadge(chain, FALSE)
       ELSE chain

\* -------------------------------------------------------- chain lifecycle

\* the id of the chain created last
NewestChain(s) == ChainIdOf(Cardinality(DOMAIN s.chains))

createChain(s, details) ==
  LET id == ChainIdOf(Cardinality(DOMAIN s.chains) + 1)
      chain ==
        [id |-> id,
         requestIds |-> {},
         tabId |-> details.tabId,
         initiator |-> details.initiator,
         initiatedAt |-> formatTimestamp(details.timeStamp, s.now),
         events |-> <<>>,
         initialUrl |-> Undefined,
         pendingFinalDetails |-> <<>>,
         finalizeTimer |-> 0,
         awaitingClientRedirect |-> FALSE,
         awaitingClientRedirectTimer |-> 0,
         awaitingHasBadgeTarget |-> FALSE,
         awaitingClientRedirectDeadline |-> 0,
         awaitingClientRedirectInterval |-> 0,
         awaitingBadgeToggle |-> FALSE,
         awaitingBadgeFinalColor |-> Null,
         cleanupTimer |-> 0,
         pendingRedirectTargetKeys |-> {}]
  IN [s EXCEPT !.chains = MapSet(s.chains, id, chain),
               !.chainsById = s.chainsById \cup {id}]

\* the chain's id, or NoChain for undefined
getChainByRequestId(s, requestId) ==
  LET chainId == MapGet(s.requestToChain, requestId, NoChain) IN
    IF chainId \in s.chainsById THEN chainId ELSE NoChain

\* `if (pending?.chainId === chain.id) pendingClientRedirects.delete(tabId)`
DeletePendingClientRedirectOf(pending, c, tabId) ==
  IF tabId \in DOMAIN pending /\ pending[tabId].chainId = c
  THEN MapDelete(pending, tabId)
  ELSE pending

\* cancelAwaitingClientRedirect that leaves the await timer running
cancelAwaitingClientRedirect_KeepsTimer(s, c) ==
  IF ~s.chains[c].awaitingClientRedirect THEN s
  ELSE
    [s EXCEPT
       !.chains =
         MapSet(s.chains, c,
           updateBadgeForChain(
             [stopAwaitingClientRedirectCountdown(s.chains[c]) EXCEPT
                !.awaitingClientRedirect = FALSE,
                !.awaitingBadgeFinalColor = Null])),
       !.pendingClientRedirects =
         IF s.chains[c].tabId >= 0
         THEN DeletePendingClientRedirectOf(
                s.pendingClientRedirects, c, s.chains[c].tabId)
         ELSE s.pendingClientRedirects]

cancelAwaitingClientRedirect(s, c) ==
  IF ~s.chains[c].awaitingClientRedirect THEN s
  ELSE
    [s EXCEPT
       !.chains =
         MapSet(s.chains, c,
           updateBadgeForChain(
             [stopAwaitingClientRedirectCountdown(s.chains[c]) EXCEPT
                !.awaitingClientRedirect = FALSE,
                !.awaitingClientRedirectTimer = 0,
                !.awaitingBadgeFinalColor = Null])),
       !.pendingClientRedirects =
         IF s.chains[c].tabId >= 0
         THEN DeletePendingClientRedirectOf(
                s.pendingClientRedirects, c, s.chains[c].tabId)
         ELSE s.pendingClientRedirects]

getClientRedirectAwaitTimeout(details) == CLIENT_REDIRECT_DEFAULT_AWAIT_MS

\* startCleanupTimer that arms nothing
startCleanupTimer_NotArmed(chain) == chain

startCleanupTimer(chain) ==
  [chain EXCEPT !.cleanupTimer = ACTIVE_CHAIN_TIMEOUT_MS]

cleanupChain(s, c) ==
  LET chain == s.chains[c]
      keys == chain.pendingRedirectTargetKeys
      Filtered(key) ==
        SelectSeq(s.pendingRedirectTargets[key], LAMBDA id : id # c)
      keptKeys ==
        {key \in DOMAIN s.pendingRedirectTargets :
           key \notin keys \/ Filtered(key) # <<>>}
  IN [s EXCEPT
        !.chains =
          MapSet(s.chains, c,
            [stopAwaitingClientRedirectCountdown(chain) EXCEPT
               !.finalizeTimer = 0,
               !.awaitingClientRedirectTimer = 0,
               !.awaitingClientRedirect = FALSE,
               !.awaitingBadgeFinalColor = Null,
               !.cleanupTimer = 0,
               !.pendingRedirectTargetKeys = {}]),
        !.pendingRedirectTargets =
          [key \in keptKeys |->
             IF key \in keys THEN Filtered(key)
             ELSE s.pendingRedirectTargets[key]],
        !.requestToChain =
          [r \in DOMAIN s.requestToChain \ chain.requestIds |->
             s.requestToChain[r]],
        !.tabChains =
          IF /\ chain.tabId >= 0
             /\ MapGet(s.tabChains, chain.tabId, NoChain) = c
          THEN MapDelete(s.tabChains, chain.tabId)
          ELSE s.tabChains,
        !.pendingClientRedirects =
          IF chain.tabId >= 0
          THEN DeletePendingClientRedirectOf(
                 s.pendingClientRedirects, c, chain.tabId)
          ELSE s.pendingClientRedirects,
        !.chainsById = s.chainsById \ {c}]

\* ----------------------------------------------------------- finalization

\* the record literal of finalizeChainRecord; an absent noiseEvents is <<>>
RecordOfChain(chain, completion, preparedEvents, now) ==
  [id |-> chain.id,
   requestId |-> completion.details.requestId,
   tabId |-> chain.tabId,
   initiator |-> chain.initiator,
   initiatedAt |-> chain.initiatedAt,
   completedAt |-> formatTimestamp(completion.details.timeStamp, now),
   initialUrl |->
     OrElse(chain.initialUrl,
            IF preparedEvents.normalizedEvents = <<>> THEN Undefined
            ELSE preparedEvents.normalizedEvents[1].from),
   finalUrl |-> Undefined,
   finalStatus |-> completion.details.statusCode,
   error |-> OrElse(completion.errorMessage, Null),
   events |-> preparedEvents.normalizedEvents,
   noiseEvents |-> preparedEvents.normalizedNoiseEvents]

\* `record.finalUrl = resolveFinalUrl(...) ?? undefined`
WithFinalUrl(record, resolved) ==
  [record EXCEPT !.finalUrl = IF resolved = Null THEN Undefined ELSE resolved]

\* the classification fields finalizeChainRecord copies into the record
WithClassification(record, classification) ==
  [id |-> record.id,
   requestId |-> record.requestId,
   tabId |-> record.tabId,
   initiator |-> record.initiator,
   initiatedAt |-> record.initiatedAt,
   completedAt |-> record.completedAt,
   initialUrl |-> record.initialUrl,
   finalUrl |-> record.finalUrl,
   finalStatus |-> record.finalStatus,
   error |-> record.error,
   events |-> record.events,
   noiseEvents |-> record.noiseEvents,
   classification |-> classification.classification,
   classificationReason |-> classification.classificationReason,
   contentType |-> classification.contentType,
   contentLength |-> classification.contentLength]

\* the record finalizeChainRecord builds for a chain with a completion
BuildRecord(chain, preparedEvents, committed, now) ==
  Let(RecordOfChain(chain, chain.pendingFinalDetails[1], preparedEvents, now),
      LAMBDA record0 :
  Let(WithFinalUrl(record0,
        resolveFinalUrl(record0, chain.pendingFinalDetails[1].details,
                        committed)),
      LAMBDA record1 :
  WithClassification(record1,
    classifyRecord(record1, chain.pendingFinalDetails[1].details))))

\* the state with `chain.pendingFinalDetails = null`
ClearCompletion(s, c) ==
  SetChain(s, c, [s.chains[c] EXCEPT !.pendingFinalDetails = <<>>])

\* finalizeChainRecord up to its `await appendRedirectRecord(record)`: the
\* record is built and the storage read issued; the rest of the function is
\* the task left in `tasks`
finalizeChainRecord(s, chainId) ==
  IF chainId \notin s.chainsById THEN s
  ELSE IF s.chains[chainId].pendingFinalDetails = <<>>
  THEN cleanupChain(s, chainId)
  ELSE
    Let(prepareEventsForRecord(s.chains[chainId].events, s.now),
        LAMBDA preparedEvents :
    IF ~preparedEvents.allEventsNoisy
    THEN [ClearCompletion(s, chainId) EXCEPT
            !.tasks =
              Append(s.tasks,
                     [chain |-> chainId,
                      record |->
                        BuildRecord(s.chains[chainId], preparedEvents,
                                    s.tabLastCommittedUrl, s.now),
                      phase |-> "get",
                      existing |-> <<>>])]
    ELSE cleanupChain(ClearCompletion(s, chainId), chainId))

scheduleChainFinalization(s, c) ==
  IF s.chains[c].awaitingClientRedirect THEN s
  ELSE IF CHAIN_FINALIZATION_DELAY_MS <= 0
  THEN finalizeChainRecord(
         SetChain(s, c, [s.chains[c] EXCEPT !.finalizeTimer = 0]), c)
  ELSE SetChain(s, c,
         [s.chains[c] EXCEPT !.finalizeTimer = CHAIN_FINALIZATION_DELAY_MS])

\* the pendingClientRedirects entry startAwaitingClientRedirect writes
PendingClientRedirect(chain, fromUrl, now) ==
  [chainId |-> chain.id,
   fromUrl |->
     OrElse(fromUrl,
            IF chain.pendingFinalDetails = <<>> THEN Undefined
            ELSE chain.pendingFinalDetails[1].details.url),
   startedAt |-> now]

\* the timers are kept as the delay they were armed with, 0 for none; the
\* hasBadgeTarget the callbacks close over is kept with them
ArmAwaiting(chain, waitMs, now) ==
  [renderAwaitingBadge(
     [chain EXCEPT !.awaitingClientRedirect = TRUE,
                   !.awaitingClientRedirectDeadline = now + waitMs,
                   !.awaitingBadgeToggle = TRUE],
     FALSE) EXCEPT
     !.awaitingClientRedirectInterval =
       IF chain.tabId >= 0 THEN BADGE_COUNTDOWN_TICK_MS ELSE 0,
     !.awaitingClientRedirectTimer = waitMs,
     !.awaitingHasBadgeTarget = chain.tabId >= 0]

startAwaitingClientRedirect(s, c, fromUrl, timeoutMs) ==
  Let(cancelAwaitingClientRedirect(s, c), LAMBDA s1 :
    [s1 EXCEPT
       !.pendingClientRedirects =
         IF s1.chains[c].tabId >= 0
         THEN MapSet(s1.pendingClientRedirects, s1.chains[c].tabId,
                     PendingClientRedirect(s1.chains[c], fromUrl, s1.now))
         ELSE s1.pendingClientRedirects,
       !.chains =
         MapSet(s1.chains, c,
           ArmAwaiting(s1.chains[c],
                       IF timeoutMs > 0 THEN timeoutMs
                       ELSE CLIENT_REDIRECT_DEFAULT_AWAIT_MS,
                       s1.now))])

\* the callback of the timer startAwaitingClientRedirect arms
AwaitingClientRedirectTimeout(s, c) ==
  scheduleChainFinalization(
    [s EXCEPT
       !.chains =
         MapSet(s.chains, c,
           updateBadgeForChain(
             stopAwaitingClientRedirectCountdown(
               [s.chains[c] EXCEPT
                  !.awaitingClientRedirect = FALSE,
                  !.awaitingClientRedirectTimer = 0,
                  !.awaitingBadgeFinalColor = BADGE_SUCCESS_COLOR]))),
       !.pendingClientRedirects =
         IF s.chains[c].awaitingHasBadgeTarget
         THEN DeletePendingClientRedirectOf(
                s.pendingClientRedirects, c, s.chains[c].tabId)
         ELSE s.pendingClientRedirects],
    c)

\* the callback of the interval startAwaitingClientRedirect arms
AwaitingClientRedirectTick(s, c) ==
  SetChain(s, c,
    IF ~s.chains[c].awaitingClientRedirect
    THEN [s.chains[c] EXCEPT !.awaitingClientRedirectInterval = 0]
    ELSE renderAwaitingBadge(s.chains[c], TRUE))

\* the callback of the timer scheduleChainFinalization arms
FinalizeTimeout(s, c) ==
  finalizeChainRecord(
    SetChain(s, c, [s.chains[c] EXCEPT !.finalizeTimer = 0]), c)

\* the callback of the timer startCleanupTimer arms
CleanupTimeout(s, c) == cleanupChain(s, c)

\* ------------------------------------------------- attach, record, consume

\* attachRequestToChain up to its call of cancelAwaitingClientRedirect
AttachFields(s, c, details) ==
  [s EXCEPT
     !.chains =
       MapSet(s.chains, c,
         [s.chains[c] EXCEPT
            !.requestIds = @ \cup {details.requestId},
            !.tabId = IF details.tabId >= 0 THEN details.tabId ELSE @,
            !.initiator =
              IF ~Truthy(@) /\ Truthy(details.initiator)
              THEN details.initiator ELSE @,
            !.pendingFinalDetails =
              IF s.chains[c].awaitingClientRedirect THEN <<>> ELSE @]),
     !.requestToChain =
       MapSet(s.requestToChain, details.requestId, s.chains[c].id),
     !.tabChains =
       IF details.tabId >= 0
       THEN MapSet(s.tabChains, details.tabId, s.chains[c].id)
       ELSE s.tabChains]

attachRequestToChain(s, c, details) ==
  Let(cancelAwaitingClientRedirect(AttachFields(s, c, details), c),
      LAMBDA s1 : SetChain(s1, c, startCleanupTimer(s1.chains[c])))

\* `${hasTab ? tabId : 'no-tab'}::${url}` and `any-tab::${url}`, each kept
\* as the pair of its two parts
createRedirectTargetKey(tabId, url) ==
  [tabKey |-> <<IF tabId >= 0 THEN ToString(tabId) ELSE "no-tab", url>>,
   anyKey |-> <<"any-tab", url>>]

\* the index of the first entry of the queue that is a live chain, 0 for none
FirstLive(s, queue) ==
  LET live == {i \in 1..Len(queue) : queue[i] \in s.chainsById} IN
    IF live = {} THEN 0 ELSE CHOOSE i \in live : \A j \in live : i <= j

\* consumeQueueByKey on a non-empty queue whose entry `found` is returned
\* (0: every entry was shifted out and none was live)
ShiftQueue(s, key, queue, found) ==
  [s EXCEPT
     !.chains =
       IF found = 0 THEN s.chains
       ELSE MapSet(s.chains, queue[found],
              [s.chains[queue[found]] EXCEPT
                 !.pendingRedirectTargetKeys = @ \ {key}]),
     !.pendingRedirectTargets =
       IF found # 0 /\ found < Len(queue)
       THEN MapSet(s.pendingRedirectTargets, key,
                   SubSeq(queue, found + 1, Len(queue)))
       ELSE MapDelete(s.pendingRedirectTargets, key)]

\* [s |-> the state afterwards, chain |-> the chain found or NoChain]
consumeQueueByKey(s, key) ==
  IF MapGet(s.pendingRedirectTargets, key, <<>>) = <<>>
  THEN [s |-> s, chain |-> NoChain]
  ELSE
    Let(FirstLive(s, s.pendingRedirectTargets[key]), LAMBDA found :
      [s |-> ShiftQueue(s, key, s.pendingRedirectTargets[key], found),
       chain |-> IF found = 0 THEN NoChain
                 ELSE s.pendingRedirectTargets[key][found]])

\* the any-tab half of consumePendingRedirectTarget
ConsumeAnyTab(consumed, url) ==
  IF consumed.chain = NoChain THEN consumed
  ELSE IF /\ Truthy(consumed.s.chains[consumed.chain].initialUrl)
          /\ ~sameHost(consumed.s.chains[consumed.chain].initialUrl, url)
       THEN [s |-> consumed.s, chain |-> NoChain]
       ELSE consumed

\* consumePendingRedirectTarget that asks the any-tab key before the key of
\* the request's tab
consumePendingRedirectTarget_AnyTabFirst(s, details) ==
  IF ~Truthy(details.url) THEN [s |-> s, chain |-> NoChain]
  ELSE
    Let(ConsumeAnyTab(
          consumeQueueByKey(
            s, createRedirectTargetKey(details.tabId, details.url).anyKey),
          details.url),
        LAMBDA byAny :
      IF byAny.chain # NoChain THEN byAny
      ELSE consumeQueueByKey(
             byAny.s,
             createRedirectTargetKey(details.tabId, details.url).tabKey))

consumePendingRedirectTarget(s, details) ==
  IF ~Truthy(details.url) THEN [s |-> s, chain |-> NoChain]
  ELSE
    Let(consumeQueueByKey(
          s, createRedirectTargetKey(details.tabId, details.url).tabKey),
        LAMBDA byTab :
      IF byTab.chain # NoChain THEN byTab
      ELSE ConsumeAnyTab(
             consumeQueueByKey(
               byTab.s,
               createRedirectTargetKey(details.tabId, details.url).anyKey),
             details.url))

\* `q.push(chain.id); pendingRedirectTargets.set(key, q);
\*  chain.pendingRedirectTargetKeys.add(key)`
PushRedirectTarget(s, c, key) ==
  [s EXCEPT
     !.pendingRedirectTargets =
       MapSet(s.pendingRedirectTargets, key,
              Append(MapGet(s.pendingRedirectTargets, key, <<>>),
                     s.chains[c].id)),
     !.chains =
       MapSet(s.chains, c,
         [s.chains[c] EXCEPT !.pendingRedirectTargetKeys = @ \cup {key}])]

\* the registrations recordRedirectEvent makes for details.redirectUrl
RegisterRedirectTarget(s, c, details) ==
  IF ~Truthy(details.redirectUrl) THEN s
  ELSE
    Let(PushRedirectTarget(
          s, c,
          createRedirectTargetKey(details.tabId, details.redirectUrl).tabKey),
        LAMBDA s1 :
      IF /\ ~(details.tabId >= 0)
         /\ (\/ ~Truthy(s1.chains[c].initialUrl)
             \/ s1.chains[c].initialUrl = details.url)
      THEN PushRedirectTarget(
             s1, c,
             createRedirectTargetKey(details.tabId,
                                     details.redirectUrl).anyKey)
      ELSE s1)

\* rawEvent of recordRedirectEvent
RedirectEventOf(details, now) ==
  Event(formatTimestamp(details.timeStamp, now), details.timeStamp,
        details.url, details.redirectUrl,
        IF /\ details.statusCode = "0"
           /\ ParseUrl(details.url).protocol = "http:"
           /\ Truthy(details.redirectUrl)
           /\ ParseUrl(details.redirectUrl).protocol = "https:"
        THEN "HSTS" ELSE details.statusCode,
        details.method, details.ip, details.type, Undefined, Undefined)

\* recordRedirectEvent once its chain is at hand
RecordOnChain(s, c, details) ==
  Let(attachRequestToChain(s, c, details), LAMBDA s1 :
  Let(SetChain(s1, c,
        [s1.chains[c] EXCEPT
           !.initialUrl = IF ~Truthy(@) THEN details.url ELSE @]),
      LAMBDA s2 :
  Let(RegisterRedirectTarget(s2, c, details), LAMBDA s3 :
    SetChain(s3, c,
      updateBadgeForChain(
        appendEventToChain(
          s3.chains[c],
          classifyEventLikeHop(RedirectEventOf(details, s.now))))))))

recordRedirectEvent(s, details) ==
  IF getChainByRequestId(s, details.requestId) = NoChain
  THEN Let(createChain(s, details),
           LAMBDA s0 : RecordOnChain(s0, NewestChain(s0), details))
  ELSE RecordOnChain(s, getChainByRequestId(s, details.requestId), details)

\* ---------------------------------------------------------------- handlers

\* the value finalizeChain stores in chain.pendingFinalDetails
CompletionOf(details, errorMessage) ==
  [details |->
     [requestId |-> details.requestId,
      tabId |-> details.tabId,
      url |-> details.url,
      type |-> details.type,
      statusCode |-> details.statusCode,
      timeStamp |-> details.timeStamp,
      responseHeaders |-> details.responseHeaders],
   errorMessage |-> OrElse(errorMessage, Null)]

\* canAwaitClientRedirect that asks for a real tab only, whatever the type
canAwaitClientRedirect_AnyType(details) == details.tabId >= 0

canAwaitClientRedirect(details) ==
  /\ details.tabId >= 0
  /\ (~Truthy(details.type) \/ details.type \in CLIENT_REDIRECT_AWAIT_TYPES)

isHtmlPage(details) ==
  /\ SeqContains(
       LowerSeq(getHeaderValue(details.responseHeaders, "content-type")),
       "text/html")
  /\ details.statusCode = "200"
  /\ (details.type = "main_frame" \/ details.type = "sub_frame")

\* finalizeChain from `startCleanupTimer(chain)` on
CompleteChain(s, c, details, errorMessage) ==
  Let(SetChain(s, c,
        [startCleanupTimer(s.chains[c]) EXCEPT
           !.pendingFinalDetails = <<CompletionOf(details, errorMessage)>>]),
      LAMBDA s1 :
    IF isNoisyUrl(details.url) THEN scheduleChainFinalization(s1, c)
    ELSE IF canAwaitClientRedirect(details) \/ isHtmlPage(details)
    THEN startAwaitingClientRedirect(
           s1, c, details.url,
           IF isHtmlPage(details) THEN CLIENT_REDIRECT_EXTENDED_AWAIT_MS
           ELSE getClientRedirectAwaitTimeout(details))
    ELSE scheduleChainFinalization(s1, c))

\* finalizeChain without the return for a non-navigational completion that
\* arrives during the wait
FinalizeFound_NoWaitGuard(s, c, details, errorMessage) ==
  IF c = NoChain THEN s
  ELSE IF Len(s.chains[c].events) = 0 THEN cleanupChain(s, c)
  ELSE CompleteChain(s, c, details, errorMessage)

\* finalizeChain once its chain is at hand
FinalizeFound(s, c, details, errorMessage) ==
  IF c = NoChain THEN s
  ELSE IF Len(s.chains[c].events) = 0 THEN cleanupChain(s, c)
  ELSE IF /\ s.chains[c].awaitingClientRedirect
          /\ Truthy(details.type)
          /\ details.type # "main_frame"
  THEN s
  ELSE CompleteChain(s, c, details, errorMessage)

\* finalizeChain that falls back to the chain of the request's tab
finalizeChain_ByTab(s, details, errorMessage) ==
  FinalizeFound(s,
    IF getChainByRequestId(s, details.requestId) # NoChain
    THEN getChainByRequestId(s, details.requestId)
    ELSE IF MapGet(s.tabChains, details.tabId, NoChain) \in s.chainsById
    THEN s.tabChains[details.tabId]
    ELSE NoChain,
    details, errorMessage)

finalizeChain(s, details, errorMessage) ==
  FinalizeFound(s, getChainByRequestId(s, details.requestId), details,
                errorMessage)

handleBeforeRedirect(s, details) == recordRedirectEvent(s, details)

\* `pending.fromUrl || candidate.pendingFinalDetails?.details?.url ||
\*  candidate.events.at(-1)?.to`
PendingFromUrl(pending, chain) ==
  OrElse(pending.fromUrl,
    OrElse(IF chain.pendingFinalDetails = <<>> THEN Undefined
           ELSE chain.pendingFinalDetails[1].details.url,
           IF chain.events = <<>> THEN Undefined
           ELSE Last(chain.events).to))

\* the client-redirect hop both handlers build
ClientRedirectEvent(fromUrl, details, now) ==
  classifyEventLikeHop(
    Event(formatTimestamp(details.timeStamp, now), details.timeStamp,
          fromUrl, details.url, "JS", "CLIENT", Undefined,
          "client-redirect", Undefined, Undefined))

DropPendingClientRedirect(s, tabId) ==
  [s EXCEPT !.pendingClientRedirects =
              MapDelete(s.pendingClientRedirects, tabId)]

\* handleBeforeRequest: the candidate of the tab's pending client redirect
\* is live and `fromUrl` is computed
AttachCandidate(s, candidate, fromUrl, details) ==
  IF Truthy(fromUrl) /\ sameHost(fromUrl, details.url)
  THEN
    [s |->
       Let(cancelAwaitingClientRedirect(
             SetChain(s, candidate,
               [appendEventToChain(
                  s.chains[candidate],
                  ClientRedirectEvent(OrElse(fromUrl, ""), details, s.now))
                EXCEPT !.pendingFinalDetails = <<>>]),
             candidate),
           LAMBDA s1 :
             SetChain(s1, candidate,
                      updateBadgeForChain(s1.chains[candidate]))),
     chain |-> candidate]
  ELSE
    [s |-> DropPendingClientRedirect(
             scheduleChainFinalization(s, candidate), details.tabId),
     chain |-> NoChain]

\* the third way handleBeforeRequest finds a chain: the tab's pending client
\* redirect.  [s |-> the state afterwards, chain |-> the chain or NoChain]
AttachByPendingClientRedirect(s, details) ==
  IF details.tabId \notin DOMAIN s.pendingClientRedirects
  THEN [s |-> s, chain |-> NoChain]
  ELSE IF s.pendingClientRedirects[details.tabId].chainId \notin s.chainsById
  THEN [s |-> DropPendingClientRedirect(s, details.tabId), chain |-> NoChain]
  ELSE
    AttachCandidate(
      s, s.pendingClientRedirects[details.tabId].chainId,
      OrElse(PendingFromUrl(
               s.pendingClientRedirects[details.tabId],
               s.chains[s.pendingClientRedirects[details.tabId].chainId]),
        OrElse(MapGet(s.tabLastCommittedUrl, details.tabId, Undefined),
               s.chains[s.pendingClientRedirects[details.tabId].chainId]
                 .initialUrl)),
      details)

\* handleBeforeRequest once a chain was found
AttachFound(found, details) ==
  IF found.chain = NoChain THEN found.s
  ELSE
    Let(attachRequestToChain(found.s, found.chain, details), LAMBDA s1 :
      SetChain(s1, found.chain,
        [s1.chains[found.chain] EXCEPT
           !.initialUrl = IF ~Truthy(@) THEN details.url ELSE @]))

\* the second and third way handleBeforeRequest finds a chain
FindByTargetOrClient(s, details) ==
  Let(consumePendingRedirectTarget(s, details), LAMBDA byTarget :
    IF /\ byTarget.chain = NoChain
       /\ details.tabId >= 0
       /\ details.type = "main_frame"
    THEN AttachByPendingClientRedirect(byTarget.s, details)
    ELSE byTarget)

handleBeforeRequest(s, details) ==
  IF getChainByRequestId(s, details.requestId) # NoChain
  THEN AttachFound(
         [s |-> s, chain |-> getChainByRequestId(s, details.requestId)],
         details)
  ELSE Let(FindByTargetOrClient(s, details),
           LAMBDA found : AttachFound(found, details))

handleRequestCompleted(s, details) == finalizeChain(s, details, Undefined)

handleRequestError(s, details) ==
  finalizeChain(s, details, OrElse(details.error, "Unknown network error"))

cleanupTabState(s, tabId) ==
  Let([s EXCEPT
         !.tabLastCommittedUrl = MapDelete(s.tabLastCommittedUrl, tabId),
         !.pendingClientRedirects =
           MapDelete(s.pendingClientRedirects, tabId)],
      LAMBDA s1 :
    IF tabId \notin DOMAIN s1.tabChains THEN s1
    ELSE IF s1.tabChains[tabId] \in s1.chainsById
    THEN cleanupChain(s1, s1.tabChains[tabId])
    ELSE [s1 EXCEPT !.tabChains = MapDelete(s1.tabChains, tabId)])

\* `[...chain.events].reverse().find((e) => !e.noise && e.to)?.to ||
\*  chain.events.at(-1)?.to`
LastTarget(events) ==
  LET targets == {i \in 1..Len(events) :
                    events[i].noise # "true" /\ Truthy(events[i].to)}
  IN IF targets # {}
     THEN events[CHOOSE i \in targets : \A j \in targets : j <= i].to
     ELSE IF events = <<>> THEN Undefined ELSE Last(events).to

\* `new URL(lastTarget)` and `new URL(details.url)` agree on hostname and
\* pathname; a URL that does not parse leaves it false
isBackwardHop(lastTarget, url) ==
  /\ Truthy(lastTarget)
  /\ Truthy(url)
  /\ ParseUrl(lastTarget).valid
  /\ ParseUrl(url).valid
  /\ ParseUrl(lastTarget).hostname = ParseUrl(url).hostname
  /\ ParseUrl(lastTarget).pathname = ParseUrl(url).pathname

\* the completion handleWebNavigationCommitted gives the awaiting chain
NavigationCompletion(chain, details, url, now) ==
  [details |->
     [requestId |-> chain.id,
      tabId |-> details.tabId,
      url |-> url,
      type |-> "main_frame",
      statusCode |-> "200",
      timeStamp |-> IF details.timeStamp # 0 THEN details.timeStamp ELSE now,
      responseHeaders |-> <<>>],
   errorMessage |-> Null]

\* handleWebNavigationCommitted for the awaiting chain c of the tab's
\* pending client redirect, `fromUrl` computed
CommitOnAwaiting(s, c, fromUrl, details) ==
  Let(cancelAwaitingClientRedirect(
        IF /\ Truthy(fromUrl)
           /\ sameHost(fromUrl, details.url)
           /\ ~isBackwardHop(LastTarget(s.chains[c].events), details.url)
        THEN SetChain(s, c,
               appendEventToChain(
                 s.chains[c], ClientRedirectEvent(fromUrl, details, s.now)))
        ELSE s,
        c),
      LAMBDA s1 :
    scheduleChainFinalization(
      SetChain(s1, c,
        [s1.chains[c] EXCEPT
           !.pendingFinalDetails =
             <<NavigationCompletion(
                 s1.chains[c], details,
                 IF Truthy(fromUrl) /\ sameHost(fromUrl, details.url)
                 THEN details.url ELSE fromUrl,
                 s.now)>>]),
      c))

\* the `if (details.frameId === 0)` block of handleWebNavigationCommitted
CommitMainFrame(s, details) ==
  IF details.tabId \notin DOMAIN s.pendingClientRedirects THEN s
  ELSE
    DropPendingClientRedirect(
      IF /\ s.pendingClientRedirects[details.tabId].chainId \in s.chainsById
         /\ s.chains[s.pendingClientRedirects[details.tabId].chainId]
              .awaitingClientRedirect
      THEN CommitOnAwaiting(
             s, s.pendingClientRedirects[details.tabId].chainId,
             OrElse(PendingFromUrl(
                      s.pendingClientRedirects[details.tabId],
                      s.chains[s.pendingClientRedirects[details.tabId]
                                 .chainId]),
               OrElse(s.chains[s.pendingClientRedirects[details.tabId]
                                 .chainId].initialUrl,
                      "")),
             details)
      ELSE s,
      details.tabId)

\* the end of handleWebNavigationCommitted: the badge of the tab's chain
RefreshTabBadge(s, tabId) ==
  IF /\ tabId \in DOMAIN s.tabChains
     /\ s.tabChains[tabId] \in s.chainsById
  THEN SetChain(s, s.tabChains[tabId],
                updateBadgeForChain(s.chains[s.tabChains[tabId]]))
  ELSE s

handleWebNavigationCommitted(s, details) ==
  IF details.tabId < 0 THEN s
  ELSE
    Let([s EXCEPT !.tabLastCommittedUrl =
                    MapSet(s.tabLastCommittedUrl, details.tabId, details.url)],
        LAMBDA s1 :
    Let(IF details.frameId = 0 THEN CommitMainFrame(s1, details) ELSE s1,
        LAMBDA s2 : RefreshTabBadge(s2, details.tabId)))

\* ------------------------------------------------------------ persistence

RemoveAt(seq, i) == SubSeq(seq, 1, i - 1) \o SubSeq(seq, i + 1, Len(seq))

Take(seq, n) == SubSeq(seq, 1, IF Len(seq) < n THEN Len(seq) ELSE n)

\* [record, ...existing] without the slice
UpdatedLog_NoCap(record, existing) == <<record>> \o existing

\* [record, ...existing].slice(0, MAX_RECORDS)
UpdatedLog(record, existing) == Take(<<record>> \o existing, MAX_RECORDS)

\* finalizeChainRecord after its await: updateBadgeForRecord acts on the
\* browser only
FinalizeAfterAppend(s, i) ==
  cleanupChain([s EXCEPT !.tasks = RemoveAt(s.tasks, i)], s.tasks[i].chain)

\* ------------------------------------------------------- browser events

\* The requests the browser issues: a request keeps its id, its tab and its
\* resource type for as long as it lives
HtmlHeaders == <<Header("Content-Type", <<"text/html", "charset=utf-8">>)>>

\* <<url, redirectUrl, statusCode>> of the redirects the browser reports
RedirectHops ==
  { <<"http://x.com", "http://x.com/y", "301">>,
    <<"http://x.com/y", "http://x.com", "302">>,
    <<"http://x.com", "https://www.google-analytics.com/collect", "302">> }

\* the requests the browser makes: a navigation and an image of tab 1 and a
\* request of no tab, each with the redirects it may take, the urls it may
\* be re-issued for and the responses it may complete with
Requests ==
  { [requestId |-> "A", tabId |-> 1, type |-> "main_frame",
     hops |-> RedirectHops,
     urls |-> {"http://x.com/y", "https://z.com/final"},
     completions |->
       {"https://z.com/final", "https://www.google-analytics.com/collect"},
     headers |-> {<<>>, HtmlHeaders}],
    [requestId |-> "B", tabId |-> 1, type |-> "image",
     hops |-> {h \in RedirectHops : h[3] = "301"},
     urls |-> {"http://x.com/y"},
     completions |-> {"https://z.com/final"},
     headers |-> {<<>>}],
    [requestId |-> "C", tabId |-> -1, type |-> "image",
     hops |-> {h \in RedirectHops : h[1] = "http://x.com"},
     urls |-> {"http://x.com/y"},
     completions |-> {"https://z.com/final"},
     headers |-> {<<>>}] }

\* the tabs webNavigation and tabs events name
RealTabs == {1}

NetworkErrors == {"net::ERR_FAILED"}

ErrorUrls == {"https://z.com/final"}

\* <<frameId, url>> of the navigations webNavigation reports as committed
CommittedFrames ==
  { <<0, "http://x.com/y">>, <<0, "https://z.com/final">>,
    <<1, "https://z.com/final">> }

BeforeRequestDetails ==
  UNION { { [requestId |-> r.requestId, tabId |-> r.tabId, url |-> u,
             type |-> r.type, initiator |-> Undefined,
             timeStamp |-> clock] : u \in r.urls } : r \in Requests }

BeforeRedirectDetails ==
  UNION { { [requestId |-> r.requestId, tabId |-> r.tabId, url |-> h[1],
             redirectUrl |-> h[2], statusCode |-> h[3], method |-> "GET",
             ip |-> Undefined, type |-> r.type, initiator |-> Undefined,
             timeStamp |-> clock] : h \in r.hops } : r \in Requests }

CompletedDetails ==
  UNION { { [requestId |-> r.requestId, tabId |-> r.tabId, url |-> u,
             type |-> r.type, statusCode |-> "200",
             responseHeaders |-> hs, timeStamp |-> clock] :
              u \in r.completions, hs \in r.headers } : r \in Requests }

ErrorDetails ==
  { [requestId |-> r.requestId, tabId |-> r.tabId, url |-> u,
     type |-> r.type, statusCode |-> Undefined, responseHeaders |-> <<>>,
     error |-> e, timeStamp |-> clock] :
      r \in Requests, u \in ErrorUrls, e \in NetworkErrors }

CommittedDetails ==
  { [tabId |-> t, frameId |-> f[1], url |-> f[2], timeStamp |-> clock] :
      t \in RealTabs, f \in CommittedFrames }

\* ---------------------------------------------------------------- actions

ProgInit ==
  /\ chains = EmptyMap
  /\ chainsById = {}
  /\ requestToChain = EmptyMap
  /\ tabChains = EmptyMap
  /\ tabLastCommittedUrl = EmptyMap
  /\ pendingClientRedirects = EmptyMap
  /\ pendingRedirectTargets = EmptyMap
  /\ tasks = <<>>
  /\ redirectLog = <<>>
  /\ clock = 1
  /\ appended = <<>>
  /\ cleared = {}
  /\ closedAwaiting = {}
  /\ finished = {}
  /\ requestAt = EmptyMap

\* no call of a pure function is under way
NoCall == [fn |-> "none"]

Init ==
  /\ ProgInit
  /\ callArgs = NoCall
  /\ callResult = <<>>

\* one browser event is delivered: the handler runs to completion
Deliver(after) ==
  /\ clock <= MaxClock
  /\ \E s \in {after} : Commit(s)
  /\ clock' = clock + 1
  /\ UNCHANGED <<redirectLog, appended, cleared, pureVars>>

BeforeRequest(details) ==
  /\ details.requestId \notin finished
  /\ Deliver(handleBeforeRequest(State, details))
  /\ UNCHANGED <<closedAwaiting, finished, requestAt>>

BeforeRedirect(details) ==
  /\ details.requestId \notin finished
  /\ Deliver(handleBeforeRedirect(State, details))
  /\ UNCHANGED <<closedAwaiting, finished, requestAt>>

RequestCompleted(details) ==
  /\ details.requestId \notin finished
  /\ Deliver(handleRequestCompleted(State, details))
  /\ finished' = finished \cup {details.requestId}
  /\ UNCHANGED <<closedAwaiting, requestAt>>

RequestError(details) ==
  /\ details.requestId \notin finished
  /\ Deliver(handleRequestError(State, details))
  /\ finished' = finished \cup {details.requestId}
  /\ UNCHANGED <<closedAwaiting, requestAt>>

WebNavigationCommitted(details) ==
  /\ Deliver(handleWebNavigationCommitted(State, details))
  /\ UNCHANGED <<closedAwaiting, finished, requestAt>>

\* tabs.onRemoved carries no time stamp and only ever removes state
TabRemoved(tabId) ==
  /\ \E s \in {cleanupTabState(State, tabId)} : Commit(s)
  /\ closedAwaiting' =
       closedAwaiting \cup
         {c \in chainsById :
            chains[c].tabId = tabId /\ chains[c].awaitingClientRedirect}
  /\ UNCHANGED <<redirectLog, clock, appended, cleared, finished, requestAt,
                 pureVars>>

\* a timer callback or a storage completion runs: no browser event, the
\* clock stands
Step(after) ==
  /\ \E s \in {after} : Commit(s)
  /\ UNCHANGED <<redirectLog, clock, appended, cleared, closedAwaiting, finished,
                 requestAt, pureVars>>

AwaitTimerFires(c) ==
  /\ chains[c].awaitingClientRedirectTimer # 0
  /\ Step(AwaitingClientRedirectTimeout(State, c))

CountdownIntervalFires(c) ==
  /\ chains[c].awaitingClientRedirectInterval # 0
  /\ Step(AwaitingClientRedirectTick(State, c))

FinalizeTimerFires(c) ==
  /\ chains[c].finalizeTimer # 0
  /\ Step(FinalizeTimeout(State, c))

CleanupTimerFires(c) ==
  /\ chains[c].cleanupTimer # 0
  /\ Step(CleanupTimeout(State, c))

\* appendRedirectRecord: storage.local.get resolves with the log as it is now
AppendGetResolves(i) ==
  /\ tasks[i].phase = "get"
  /\ tasks' = [tasks EXCEPT ![i] = [tasks[i] EXCEPT !.phase = "set", !.existing = redirectLog]]
  /\ UNCHANGED <<chains, chainsById, requestToChain, tabChains,
                 tabLastCommittedUrl, pendingClientRedirects,
                 pendingRedirectTargets, redirectLog, clock, appended, cleared,
                 closedAwaiting, finished, requestAt,
                 pureVars>>

\* appendRedirectRecord: storage.local.set writes the updated log
AppendSetApplies(i) ==
  /\ tasks[i].phase = "set"
  /\ redirectLog' = UpdatedLog(tasks[i].record, tasks[i].existing)
  /\ appended' = Append(appended, tasks[i].record.id)
  /\ tasks' = [tasks EXCEPT ![i] = [tasks[i] EXCEPT !.phase = "resume", !.existing = <<>>]]
  /\ UNCHANGED <<chains, chainsById, requestToChain, tabChains,
                 tabLastCommittedUrl, pendingClientRedirects,
                 pendingRedirectTargets, clock, cleared, closedAwaiting,
                 finished, requestAt, pureVars>>

\* appendRedirectRecord: the storage call rejects; the catch logs it
AppendFails(i) ==
  /\ tasks[i].phase \in {"get", "set"}
  /\ tasks' = [tasks EXCEPT ![i] = [tasks[i] EXCEPT !.phase = "resume", !.existing = <<>>]]
  /\ UNCHANGED <<chains, chainsById, requestToChain, tabChains,
                 tabLastCommittedUrl, pendingClientRedirects,
                 pendingRedirectTargets, redirectLog, clock, appended, cleared,
                 closedAwaiting, finished, requestAt,
                 pureVars>>

\* finalizeChainRecord resumes after the append and cleans the chain up
FinalizeResumes(i) ==
  /\ tasks[i].phase = "resume"
  /\ Step(FinalizeAfterAppend(State, i))

\* the clear-log message: storage.local.set writes an empty log
\* (clearAllBadges acts on the browser only)
ClearLog ==
  /\ redirectLog' = <<>>
  /\ cleared' = cleared \cup {redirectLog[n] : n \in DOMAIN redirectLog}
  /\ UNCHANGED <<chains, chainsById, requestToChain, tabChains,
                 tabLastCommittedUrl, pendingClientRedirects,
                 pendingRedirectTargets, tasks, clock, appended,
                 closedAwaiting, finished, requestAt,
                 pureVars>>

Next ==
  \/ \E details \in BeforeRequestDetails : BeforeRequest(details)
  \/ \E details \in BeforeRedirectDetails : BeforeRedirect(details)
  \/ \E details \in CompletedDetails : RequestCompleted(details)
  \/ \E details \in ErrorDetails : RequestError(details)
  \/ \E details \in CommittedDetails : WebNavigationCommitted(details)
  \/ \E tabId \in RealTabs : TabRemoved(tabId)
  \/ \E c \in DOMAIN chains : AwaitTimerFires(c)
  \/ \E c \in DOMAIN chains : CountdownIntervalFires(c)
  \/ \E c \in DOMAIN chains : FinalizeTimerFires(c)
  \/ \E c \in DOMAIN chains : CleanupTimerFires(c)
  \/ \E i \in DOMAIN tasks : AppendGetResolves(i)
  \/ \E i \in DOMAIN tasks : AppendSetApplies(i)
  \/ \E i \in DOMAIN tasks : AppendFails(i)
  \/ \E i \in DOMAIN tasks : FinalizeResumes(i)
  \/ ClearLog

Spec == Init /\ [][Next]_vars

\* ------------------------------------------------------------ stored log
\* The log as storage holds it when the service worker starts: empty, or
\* filled by earlier sessions up to, or one short of, the cap. Two requests,
\* one of tab 1 and one of no tab, are redirected once and complete; the
\* log is appended to and cleared.

\* a record an earlier session stored, the n-th newest
StoredRecord(n) == [id |-> "stored", position |-> n]

StoredLog(length) == [n \in 1..length |-> StoredRecord(n)]

StoredLogLengths == {0, MAX_RECORDS - 1, MAX_RECORDS}

LogInit ==
  /\ chains = EmptyMap
  /\ chainsById = {}
  /\ requestToChain = EmptyMap
  /\ tabChains = EmptyMap
  /\ tabLastCommittedUrl = EmptyMap
  /\ pendingClientRedirects = EmptyMap
  /\ pendingRedirectTargets = EmptyMap
  /\ tasks = <<>>
  /\ redirectLog \in {StoredLog(length) : length \in StoredLogLengths}
  /\ clock = 1
  /\ appended = <<>>
  /\ cleared = {}
  /\ closedAwaiting = {}
  /\ finished = {}
  /\ requestAt = EmptyMap
  /\ callArgs = NoCall
  /\ callResult = <<>>

LogNext ==
  \/ \E details \in BeforeRedirectDetails :
       /\ details.requestId \in {"A", "C"}
       /\ details.statusCode = "301"
       /\ BeforeRedirect(details)
  \/ \E details \in CompletedDetails :
       /\ details.requestId \in {"A", "C"}
       /\ details.responseHeaders = <<>>
       /\ RequestCompleted(details)
  \/ \E c \in DOMAIN chains : AwaitTimerFires(c)
  \/ \E c \in DOMAIN chains : CountdownIntervalFires(c)
  \/ \E c \in DOMAIN chains : FinalizeTimerFires(c)
  \/ \E i \in DOMAIN tasks : AppendGetResolves(i)
  \/ \E i \in DOMAIN tasks : AppendSetApplies(i)
  \/ \E i \in DOMAIN tasks : AppendFails(i)
  \/ \E i \in DOMAIN tasks : FinalizeResumes(i)
  \/ ClearLog

LogSpec == LogInit /\ [][LogNext]_vars

\* ------------------------------------------------------- pure functions
\* prepareEventsForRecord and classifyRecord called on their own: the
\* arguments are drawn from bounded sets, the call stores what it returns.

MaxEvents == 3

MaxEventTime == 2

MaxHops == 2

HopTargets ==
  {"http://x.com/y", "https://www.google-analytics.com/collect",
   "https://x.com/cdn-cgi/challenge-platform/h"}

\* hop events as recordRedirectEvent stores them
StoredEvents ==
  { classifyEventLikeHop(
      Event(formatTimestamp(t, t), t, "http://x.com", to, "302", "GET",
            Undefined, "main_frame", Undefined, Undefined)) :
      to \in HopTargets, t \in 1..MaxEventTime } \cup
  \* details.timeStamp is no number: timestampMs is absent, the timestamp is
  \* the wall clock's
  { classifyEventLikeHop(
      Event(formatTimestamp(NoTimestamp, 0), NoTimestamp, "http://x.com", to,
            "302", "GET", Undefined, "main_frame", Undefined, Undefined)) :
      to \in HopTargets }

PrepareCalls ==
  { [fn |-> "prepareEventsForRecord", events |-> events] :
      events \in UNION {[1..n -> StoredEvents] : n \in 0..MaxEvents} }

HopTypes == {"main_frame", "image", "media"}

\* the hops of a record, as normalizeEventForRecord leaves them
RecordEvents ==
  { normalizeEventForRecord(
      Event("T1", 1, "http://x.com", "http://x.com/y", "302", "GET",
            Undefined, type, "false", Null), 1) : type \in HopTypes }

FinalUrls ==
  {"https://z.com/final", "https://z.com/video.mp4",
   "https://z.com/pixel.gif?track=1",
   "https://www.google-analytics.com/collect"}

CompletionHeaders ==
  { <<>>,
    <<Header("Content-Type", <<"video/", "mp4">>)>>,
    <<Header("Content-Type", <<"image/", "gif">>),
      Header("Content-Length", <<"512">>)>>,
    HtmlHeaders }

ClassifyCalls ==
  { [fn |-> "classifyRecord",
     record |-> [events |-> events, finalUrl |-> finalUrl],
     completionDetails |-> [type |-> type, responseHeaders |-> headers]] :
      events \in UNION {[1..n -> RecordEvents] : n \in 0..MaxHops},
      finalUrl \in FinalUrls, type \in HopTypes,
      headers \in CompletionHeaders }

\* the hops of a record resolveFinalUrl looks at: the target, the request
\* type and the method of each
ResolveTargets ==
  {"https://z.com/final", "https://z.com/app.js",
   "https://www.google-analytics.com/collect"}

ResolveEvents ==
  { normalizeEventForRecord(
      Event("T1", 1, "http://x.com", to, "302", "GET", Undefined, type,
            "false", Null), 1) :
      to \in ResolveTargets, type \in {"main_frame", "script"} }

ResolveCalls ==
  { [fn |-> "resolveFinalUrl",
     record |-> [events |-> events, tabId |-> tabId,
                 initialUrl |-> initialUrl],
     completionDetails |-> [type |-> type, url |-> url],
     committed |-> committed] :
      events \in UNION {[1..n -> ResolveEvents] : n \in 0..MaxHops},
      tabId \in {1, -1},
      initialUrl \in {Undefined, "http://x.com"},
      type \in {"main_frame", "script"},
      url \in ResolveTargets \cup {Undefined},
      committed \in {EmptyMap, MapSet(EmptyMap, 1, "https://z.com/final"),
                     MapSet(EmptyMap, 1, "ftp://z.com/file")} }

PureInit ==
  /\ ProgInit
  /\ \/ callArgs \in PrepareCalls
     \/ callArgs \in ClassifyCalls
     \/ callArgs \in ResolveCalls
  /\ callResult = <<>>

CallPrepareEventsForRecord ==
  /\ callArgs.fn = "prepareEventsForRecord"
  /\ callResult = <<>>
  /\ callResult' = <<prepareEventsForRecord(callArgs.events, clock)>>
  /\ UNCHANGED <<progVars, callArgs>>

CallClassifyRecord ==
  /\ callArgs.fn = "classifyRecord"
  /\ callResult = <<>>
  /\ callResult' =
       <<classifyRecord(callArgs.record, callArgs.completionDetails)>>
  /\ UNCHANGED <<progVars, callArgs>>

CallResolveFinalUrl ==
  /\ callArgs.fn = "resolveFinalUrl"
  /\ callResult = <<>>
  /\ callResult' =
       <<resolveFinalUrl(callArgs.record, callArgs.completionDetails,
                         callArgs.committed)>>
  /\ UNCHANGED <<progVars, callArgs>>

\* An event of a record read as a RedirectEvent: the record's events carry
\* no timestampMs
AsRedirectEvent(event) ==
  Event(event.timestamp, NoTimestamp, event.from, event.to, event.statusCode,
        event.method, event.ip, event.type, event.noise, event.noiseReason)

\* prepareEventsForRecord called, later, on the normalizedEvents it returned
CallPrepareEventsForRecordAgain ==
  /\ callArgs.fn = "prepareEventsForRecord"
  /\ Len(callResult) = 1
  /\ callResult' =
       Append(callResult,
              prepareEventsForRecord(
                [i \in DOMAIN callResult[1].normalizedEvents |->
                   AsRedirectEvent(callResult[1].normalizedEvents[i])],
                clock + 1))
  /\ UNCHANGED <<progVars, callArgs>>

PureNext ==
  \/ CallPrepareEventsForRecord
  \/ CallPrepareEventsForRecordAgain
  \/ CallClassifyRecord
  \/ CallResolveFinalUrl

PureSpec == PureInit /\ [][PureNext]_vars

\* ------------------------------------------------------ grouping calls
\* buildSessionGroups called on its own, on lists of up to MaxRecords
\* records.

MaxRecords == 3

\* the hops of the records: within x.com, within z.com, from x.com on to
\* z.com, and within an analytics host
GroupHop(from, to) ==
  normalizeEventForRecord(
    Event("T1", 1, from, to, "302", "GET", Undefined, "main_frame", "false",
          Null), 1)

GroupShapes ==
  [x1 |-> [initialUrl |-> "http://x.com", finalUrl |-> "http://x.com/y",
           initiator |-> Undefined,
           events |-> <<GroupHop("http://x.com", "http://x.com/y")>>],
   z1 |-> [initialUrl |-> "https://z.com/app.js",
           finalUrl |-> "https://z.com/final", initiator |-> Undefined,
           events |-> <<GroupHop("https://z.com/app.js",
                                 "https://z.com/final")>>],
   xz2 |-> [initialUrl |-> "http://x.com", finalUrl |-> "https://z.com/final",
            initiator |-> Undefined,
            events |-> <<GroupHop("http://x.com", "http://x.com/y"),
                         GroupHop("http://x.com/y", "https://z.com/final")>>],
   ga1 |-> [initialUrl |-> "https://www.google-analytics.com/collect",
            finalUrl |-> "https://www.google-analytics.com/collect",
            initiator |-> "http://x.com",
            events |-> <<GroupHop("https://www.google-analytics.com/collect",
                                  "https://www.google-analytics.com/collect")>>]]

\* a record of the log (pending = FALSE) or a preview of a live chain
\* (pending = TRUE, not classified); `ref` stands for the object's identity
GroupRecord(tabId, pending, ms, classification, shape) ==
  [ref |-> 0, tabId |-> tabId, pending |-> pending,
   initiatedAt |-> formatTimestamp(ms, ms),
   classification |-> classification,
   initialUrl |-> GroupShapes[shape].initialUrl,
   finalUrl |-> GroupShapes[shape].finalUrl,
   initiator |-> GroupShapes[shape].initiator,
   events |-> GroupShapes[shape].events]

GroupRecords ==
  { GroupRecord(1, FALSE, ms, kind[1], kind[2]) :
      ms \in SessionTimes,
      kind \in { <<"normal", "x1">>, <<"normal", "z1">>,
                 <<"likely-media", "xz2">>, <<"likely-tracking", "ga1">> } }
  \cup
  { GroupRecord(2, FALSE, 0, "normal", "x1"),
    GroupRecord(0, FALSE, 0, "likely-tracking", "x1"),
    GroupRecord(-1, FALSE, 60000, "normal", "x1"),
    GroupRecord(1, TRUE, 0, Undefined, "x1") }

GroupCalls ==
  { [fn |-> "buildSessionGroups",
     records |-> [i \in DOMAIN records |-> [records[i] EXCEPT !.ref = i]],
     showingNoise |-> showingNoise] :
      records \in UNION {[1..n -> GroupRecords] : n \in 0..MaxRecords},
      showingNoise \in BOOLEAN }

GroupInit ==
  /\ ProgInit
  /\ callArgs \in GroupCalls
  /\ callResult = <<>>

CallBuildSessionGroups ==
  /\ callArgs.fn = "buildSessionGroups"
  /\ callResult = <<>>
  /\ callResult' =
       <<buildSessionGroups(callArgs.records, callArgs.showingNoise)>>
  /\ UNCHANGED <<progVars, callArgs>>

GroupSpec == GroupInit /\ [][CallBuildSessionGroups]_vars

\* ------------------------------------------------------- request life cycle
\* The browser sends the events of a request in the order of its life
\* cycle: onBeforeRequest at the url it starts at, then any number of times
\* onBeforeRedirect from the url it is at followed by onBeforeRequest at the
\* redirect's target, then onCompleted or onErrorOccurred at the url it is
\* at. A request is a record of its id, tab, resource type, the urls it may
\* start at and the redirects <<from, to, status>> servers answer it with.

\* the requests the browser has sent onBeforeRequest for at the url they
\* are at, and no onCompleted or onErrorOccurred yet
RequestsSent(requests) ==
  {r \in requests :
     /\ r.requestId \notin finished
     /\ r.requestId \in DOMAIN requestAt
     /\ requestAt[r.requestId].sent}

\* the urls the browser can send onBeforeRequest of request r for
RequestNextUrls(r) ==
  IF r.requestId \in finished THEN {}
  ELSE IF r.requestId \notin DOMAIN requestAt THEN r.starts
  ELSE IF requestAt[r.requestId].sent THEN {}
  ELSE {requestAt[r.requestId].url}

BeforeRequestDetailsOf(requests) ==
  UNION { { [requestId |-> r.requestId, tabId |-> r.tabId, url |-> u,
             type |-> r.type, initiator |-> Undefined,
             timeStamp |-> clock] : u \in RequestNextUrls(r) } :
          r \in requests }

BeforeRedirectDetailsOf(requests) ==
  UNION { { [requestId |-> r.requestId, tabId |-> r.tabId, url |-> h[1],
             redirectUrl |-> h[2], statusCode |-> h[3], method |-> "GET",
             ip |-> Undefined, type |-> r.type, initiator |-> Undefined,
             timeStamp |-> clock] :
              h \in {g \in r.hops : g[1] = requestAt[r.requestId].url} } :
          r \in RequestsSent(requests) }

CompletedDetailsOf(requests) ==
  UNION { { [requestId |-> r.requestId, tabId |-> r.tabId,
             url |-> requestAt[r.requestId].url,
             type |-> r.type, statusCode |-> "200",
             responseHeaders |-> hs, timeStamp |-> clock] :
              hs \in IF r.type = "image" THEN {<<>>}
                     ELSE {<<>>, HtmlHeaders} } :
          r \in RequestsSent(requests) }

ErrorDetailsOf(requests) ==
  UNION { { [requestId |-> r.requestId, tabId |-> r.tabId,
             url |-> requestAt[r.requestId].url,
             type |-> r.type, statusCode |-> Undefined,
             responseHeaders |-> <<>>, error |-> e, timeStamp |-> clock] :
              e \in {"net::ERR_FAILED", ""} } :
          r \in RequestsSent(requests) }

\* the request is at the url of its onBeforeRequest
RequestSent(details) ==
  requestAt' =
    MapSet(requestAt, details.requestId,
           [url |-> details.url, sent |-> TRUE])

\* the request goes to the redirect's target
RequestRedirected(details) ==
  requestAt' =
    MapSet(requestAt, details.requestId,
           [url |-> details.redirectUrl, sent |-> FALSE])

\* the request is over
RequestFinished(details) ==
  /\ finished' = finished \cup {details.requestId}
  /\ requestAt' = MapDelete(requestAt, details.requestId)

\* ---------------------------------------------------------------- two tabs
\* A request of no tab runs through a redirect loop while tabs 1 and 2 each
\* start a navigation to a url of the loop; the navigations complete, the
\* tabs may be closed, timers fire and storage answers.

MaxTabsClock == 9

TabsTabs == {1, 2}

\* the hops of the loop http://x.com -> http://x.com/y -> http://x.com
TabsHops ==
  { <<"http://x.com", "http://x.com/y", "301">>,
    <<"http://x.com/y", "http://x.com", "302">> }

\* the request id of the navigation of tab t
TabsRequestId(t) == IF t = 1 THEN "D" ELSE "E"

TabsRequests ==
  { [requestId |-> "C", tabId |-> -1, type |-> "image",
     starts |-> {"http://x.com"}, hops |-> TabsHops] }
    \cup { [requestId |-> TabsRequestId(t), tabId |-> t,
            type |-> "main_frame", starts |-> {"http://x.com/y"},
            hops |-> {}] : t \in TabsTabs }

TabsRequestDetails == BeforeRequestDetailsOf(TabsRequests)

TabsRedirectDetails == BeforeRedirectDetailsOf(TabsRequests)

TabsCompletedDetails ==
  {details \in CompletedDetailsOf(TabsRequests) :
     details.responseHeaders = <<>>}

\* one browser event of the two tabs is delivered
TabsDeliver(after) ==
  /\ clock <= MaxTabsClock
  /\ \E s \in {after} : Commit(s)
  /\ clock' = clock + 1
  /\ UNCHANGED <<redirectLog, appended, cleared, closedAwaiting, pureVars>>

TabsBeforeRequest(details) ==
  /\ TabsDeliver(handleBeforeRequest(State, details))
  /\ RequestSent(details)
  /\ UNCHANGED finished

TabsBeforeRedirect(details) ==
  /\ TabsDeliver(handleBeforeRedirect(State, details))
  /\ RequestRedirected(details)
  /\ UNCHANGED finished

TabsRequestCompleted(details) ==
  /\ TabsDeliver(handleRequestCompleted(State, details))
  /\ RequestFinished(details)

TabsTabRemoved(tabId) ==
  /\ \E s \in {cleanupTabState(State, tabId)} : Commit(s)
  /\ UNCHANGED <<redirectLog, clock, appended, cleared, closedAwaiting,
                 finished, requestAt, pureVars>>

TabsNext ==
  \/ \E details \in TabsRedirectDetails : TabsBeforeRedirect(details)
  \/ \E details \in TabsRequestDetails : TabsBeforeRequest(details)
  \/ \E details \in TabsCompletedDetails : TabsRequestCompleted(details)
  \/ \E tabId \in TabsTabs : TabsTabRemoved(tabId)
  \/ \E c \in DOMAIN chains : AwaitTimerFires(c)
  \/ \E c \in DOMAIN chains : FinalizeTimerFires(c)
  \/ \E i \in DOMAIN tasks : AppendGetResolves(i)
  \/ \E i \in DOMAIN tasks : AppendSetApplies(i)
  \/ \E i \in DOMAIN tasks : FinalizeResumes(i)

TabsSpec == Init /\ [][TabsNext]_vars

\* ------------------------------------------------------------ navigations
\* Tab 1 makes a navigation A that is redirected, an image request B that
\* begins at the redirect's target and is redirected to an analytics
\* endpoint, and a second navigation N, to the host of the first (a
\* registered redirect target or not, and redirected to the analytics
\* endpoint from there) or to another host; a frame request C of no tab
\* takes the redirect of A, or one to the other host.
\* Requests complete or fail, navigations are committed, timers fire and
\* storage answers.

MaxNavClock == 7

NavRequests ==
  { [requestId |-> "A", tabId |-> 1, type |-> "main_frame",
     starts |-> {"http://x.com"},
     hops |-> {<<"http://x.com", "http://x.com/y", "301">>}],
    [requestId |-> "B", tabId |-> 1, type |-> "image",
     starts |-> {"http://x.com/y"},
     hops |-> {<<"http://x.com/y",
                 "https://www.google-analytics.com/collect", "302">>}],
    [requestId |-> "N", tabId |-> 1, type |-> "main_frame",
     starts |-> {"http://x.com", "http://x.com/y", "https://z.com/final"},
     hops |-> {<<"http://x.com/y",
                 "https://www.google-analytics.com/collect", "302">>}],
    [requestId |-> "C", tabId |-> -1, type |-> "sub_frame",
     starts |-> {"http://x.com"},
     hops |-> {<<"http://x.com", "http://x.com/y", "301">>,
               <<"http://x.com", "https://z.com/final", "302">>}] }

NavBeforeRequestDetails == BeforeRequestDetailsOf(NavRequests)

NavBeforeRedirectDetails == BeforeRedirectDetailsOf(NavRequests)

NavCompletedDetails == CompletedDetailsOf(NavRequests)

NavErrorDetails == ErrorDetailsOf(NavRequests)

NavCommittedDetails ==
  { [tabId |-> 1, frameId |-> 0, url |-> u, timeStamp |-> clock] :
      u \in {"http://x.com/y", "https://z.com/final"} }

\* one browser event of the navigations is delivered
NavDeliver(after) ==
  /\ clock <= MaxNavClock
  /\ \E s \in {after} : Commit(s)
  /\ clock' = clock + 1
  /\ UNCHANGED <<redirectLog, appended, cleared, closedAwaiting, pureVars>>

NavBeforeRequest(details) ==
  /\ NavDeliver(handleBeforeRequest(State, details))
  /\ RequestSent(details)
  /\ UNCHANGED finished

NavBeforeRedirect(details) ==
  /\ NavDeliver(handleBeforeRedirect(State, details))
  /\ RequestRedirected(details)
  /\ UNCHANGED finished

NavRequestCompleted(details) ==
  /\ NavDeliver(handleRequestCompleted(State, details))
  /\ RequestFinished(details)

NavRequestError(details) ==
  /\ NavDeliver(handleRequestError(State, details))
  /\ RequestFinished(details)

NavCommitted(details) ==
  /\ NavDeliver(handleWebNavigationCommitted(State, details))
  /\ UNCHANGED <<finished, requestAt>>

NavNext ==
  \/ \E details \in NavBeforeRequestDetails : NavBeforeRequest(details)
  \/ \E details \in NavBeforeRedirectDetails : NavBeforeRedirect(details)
  \/ \E details \in NavCompletedDetails : NavRequestCompleted(details)
  \/ \E details \in NavErrorDetails : NavRequestError(details)
  \/ \E details \in NavCommittedDetails : NavCommitted(details)
  \/ \E c \in DOMAIN chains : AwaitTimerFires(c)
  \/ \E c \in DOMAIN chains : FinalizeTimerFires(c)
  \/ \E i \in DOMAIN tasks : AppendGetResolves(i)
  \/ \E i \in DOMAIN tasks : AppendSetApplies(i)
  \/ \E i \in DOMAIN tasks : FinalizeResumes(i)

NavSpec == Init /\ [][NavNext]_vars

\* -------------------------------------------------------------------- idle
\* Tab 1 makes a navigation A that is redirected and an image request B that
\* begins at the redirect's target; the requests complete or fail, or the
\* browser sends nothing more about them. Every armed timer fires unless it
\* is cleared first, the idle timer of startCleanupTimer included, and a
\* storage call returns or rejects.

MaxIdleClock == 5

IdleRequests ==
  { [requestId |-> "A", tabId |-> 1, type |-> "main_frame",
     starts |-> {"http://x.com"},
     hops |-> {<<"http://x.com", "http://x.com/y", "301">>}],
    [requestId |-> "B", tabId |-> 1, type |-> "image",
     starts |-> {"http://x.com/y"}, hops |-> {}] }

\* one browser event of the two requests is delivered
IdleDeliver(after) ==
  /\ clock <= MaxIdleClock
  /\ \E s \in {after} : Commit(s)
  /\ clock' = clock + 1
  /\ UNCHANGED <<redirectLog, appended, cleared, closedAwaiting, pureVars>>

IdleBeforeRequest(details) ==
  /\ IdleDeliver(handleBeforeRequest(State, details))
  /\ RequestSent(details)
  /\ UNCHANGED finished

IdleBeforeRedirect(details) ==
  /\ IdleDeliver(handleBeforeRedirect(State, details))
  /\ RequestRedirected(details)
  /\ UNCHANGED finished

IdleRequestCompleted(details) ==
  /\ IdleDeliver(handleRequestCompleted(State, details))
  /\ RequestFinished(details)

IdleRequestError(details) ==
  /\ IdleDeliver(handleRequestError(State, details))
  /\ RequestFinished(details)

IdleAwaitTimer == \E c \in DOMAIN chains : AwaitTimerFires(c)

IdleCountdown == \E c \in DOMAIN chains : CountdownIntervalFires(c)

IdleFinalizeTimer == \E c \in DOMAIN chains : FinalizeTimerFires(c)

IdleCleanupTimer == \E c \in DOMAIN chains : CleanupTimerFires(c)

IdleStorage ==
  \/ \E i \in DOMAIN tasks : AppendGetResolves(i)
  \/ \E i \in DOMAIN tasks : AppendSetApplies(i)
  \/ \E i \in DOMAIN tasks : AppendFails(i)
  \/ \E i \in DOMAIN tasks : FinalizeResumes(i)

IdleNext ==
  \/ \E details \in BeforeRequestDetailsOf(IdleRequests) :
       IdleBeforeRequest(details)
  \/ \E details \in BeforeRedirectDetailsOf(IdleRequests) :
       IdleBeforeRedirect(details)
  \/ \E details \in CompletedDetailsOf(IdleRequests) :
       IdleRequestCompleted(details)
  \/ \E details \in ErrorDetailsOf(IdleRequests) : IdleRequestError(details)
  \/ IdleAwaitTimer
  \/ IdleCountdown
  \/ IdleFinalizeTimer
  \/ IdleCleanupTimer
  \/ IdleStorage

\* an armed timer fires, a storage call settles; the browser may stop
\* sending events at any point
IdleSpec ==
  /\ Init
  /\ [][IdleNext]_vars
  /\ WF_vars(IdleAwaitTimer)
  /\ WF_vars(IdleFinalizeTimer)
  /\ WF_vars(IdleCleanupTimer)
  /\ WF_vars(IdleStorage)

\* ---------------------------------------------------------------- scenario
\* One navigation of tab 1: request A for http://x.com is redirected 301 to
\* http://x.com/y, that is redirected 302 to https://z.com/final, and that
\* completes with status 200; no other event arrives. The events follow one
\* another, and the timers and storage calls they start run, well within the
\* five minutes of the idle timer, so the idle timer plays no part, and
\* storage does not fail.

ScenarioHops ==
  << <<"http://x.com", "http://x.com/y", "301">>,
     <<"http://x.com/y", "https://z.com/final", "302">> >>

ScenarioRedirectDetails(n) ==
  { [requestId |-> "A", tabId |-> 1, url |-> ScenarioHops[n][1],
     redirectUrl |-> ScenarioHops[n][2], statusCode |-> ScenarioHops[n][3],
     method |-> method, ip |-> ip, type |-> "main_frame",
     initiator |-> Undefined, timeStamp |-> clock] :
      method \in {"GET", "POST"}, ip \in {Undefined, "203.0.113.7"} }

ScenarioCompletedDetails ==
  { [requestId |-> "A", tabId |-> 1, url |-> "https://z.com/final",
     type |-> "main_frame", statusCode |-> "200", responseHeaders |-> headers,
     timeStamp |-> clock] :
      headers \in
        { <<>>, HtmlHeaders,
          HtmlHeaders \o <<Header("Content-Length", <<"512">>)>> } }

ScenarioRedirect(n) ==
  /\ clock = n
  /\ \E details \in ScenarioRedirectDetails(n) : BeforeRedirect(details)

ScenarioCompleted ==
  /\ clock = Len(ScenarioHops) + 1
  /\ \E details \in ScenarioCompletedDetails : RequestCompleted(details)

ScenarioEvent ==
  \/ \E n \in DOMAIN ScenarioHops : ScenarioRedirect(n)
  \/ ScenarioCompleted

ScenarioAwaitTimer == \E c \in DOMAIN chains : AwaitTimerFires(c)

ScenarioCountdown == \E c \in DOMAIN chains : CountdownIntervalFires(c)

ScenarioFinalizeTimer == \E c \in DOMAIN chains : FinalizeTimerFires(c)

ScenarioStorage ==
  \/ \E i \in DOMAIN tasks : AppendGetResolves(i)
  \/ \E i \in DOMAIN tasks : AppendSetApplies(i)
  \/ \E i \in DOMAIN tasks : FinalizeResumes(i)

ScenarioNext ==
  \/ ScenarioEvent
  \/ ScenarioAwaitTimer
  \/ ScenarioCountdown
  \/ ScenarioFinalizeTimer
  \/ ScenarioStorage

\* the events arrive, an armed timer fires, a storage call returns
ScenarioSpec ==
  /\ Init
  /\ [][ScenarioNext]_vars
  /\ WF_vars(ScenarioEvent)
  /\ WF_vars(ScenarioAwaitTimer)
  /\ WF_vars(ScenarioFinalizeTimer)
  /\ WF_vars(ScenarioStorage)

\* ------------------------------------------------------------------ claims

\* C1: a chain is persisted at most once: over any interleaving of handlers,
\* timers and storage completions, at most one record carrying a given chain
\* id is ever appended to the persisted log, also when a new completion is
\* recorded and a second finalization scheduled while finalizeChainRecord is
\* still awaiting its storage write.
C1_PersistedAtMostOnce ==
  \A i, j \in DOMAIN appended : appended[i] = appended[j] => i = j

\* C2: when a tab is removed while a chain of that tab is awaiting a client
\* redirect, every such chain is gone from chainsById, requestToChain,
\* tabChains, pendingClientRedirects and the pending-redirect-target queues,
\* no record for it is persisted, and none of its timers (await, countdown
\* interval, finalize, cleanup) is left to fire.
C2_TabRemovedTearsDownAwaiting ==
  \A c \in closedAwaiting :
    /\ c \notin chainsById
    /\ \A r \in DOMAIN requestToChain : requestToChain[r] # c
    /\ \A t \in DOMAIN tabChains : tabChains[t] # c
    /\ \A t \in DOMAIN pendingClientRedirects :
         pendingClientRedirects[t].chainId # c
    /\ \A k \in DOMAIN pendingRedirectTargets :
         \A n \in DOMAIN pendingRedirectTargets[k] :
           pendingRedirectTargets[k][n] # c
    /\ \A n \in DOMAIN appended : appended[n] # c
    /\ chains[c].awaitingClientRedirectTimer = 0
    /\ chains[c].awaitingClientRedirectInterval = 0
    /\ chains[c].finalizeTimer = 0
    /\ chains[c].cleanupTimer = 0

\* C3: the request-id index is consistent in every reachable state: a
\* request id is in the requestIds of at most one live chain, and
\* requestToChain maps r to c exactly when c is in chainsById and r is in
\* the requestIds of chain c.
C3_RequestIndexConsistent ==
  /\ \A c, d \in chainsById :
       c # d => chains[c].requestIds \cap chains[d].requestIds = {}
  /\ \A r \in DOMAIN requestToChain :
       /\ requestToChain[r] \in chainsById
       /\ r \in chains[requestToChain[r]].requestIds
  /\ \A c \in chainsById : \A r \in chains[c].requestIds :
       /\ r \in DOMAIN requestToChain
       /\ requestToChain[r] = c

\* C5: hop events describing the identical transition (same from, to,
\* statusCode, method and type) are merged into one stored event: in every
\* reachable state no live chain's event list holds two events that describe
\* the same transition.
C5_NoDuplicateTransition ==
  \A c \in chainsById :
    \A i, j \in DOMAIN chains[c].events :
      eventsDescribeSameHop(chains[c].events[i], chains[c].events[j])
        => i = j

\* C6: no pending-redirect-target queue names a chain that was torn down:
\* in every reachable state every chain id stored in a pendingRedirectTargets
\* queue is in chainsById, also when one chain registered the same target key
\* more than once.
C6_QueuesNameLiveChains ==
  \A k \in DOMAIN pendingRedirectTargets :
    \A n \in DOMAIN pendingRedirectTargets[k] :
      pendingRedirectTargets[k][n] \in chainsById

\* C7: a chain that is no longer in chainsById has none of its timers armed
\* (finalizeTimer, awaitingClientRedirectTimer,
\* awaitingClientRedirectInterval, cleanupTimer), so no timer callback can
\* run against a removed chain.
C7_RemovedChainHasNoTimer ==
  \A c \in DOMAIN chains \ chainsById :
    /\ chains[c].finalizeTimer = 0
    /\ chains[c].awaitingClientRedirectTimer = 0
    /\ chains[c].awaitingClientRedirectInterval = 0
    /\ chains[c].cleanupTimer = 0

\* C7 witness: a chain that was awaiting a client redirect, with its timers
\* armed, when its tab was removed is now gone from chainsById.
C7_Witness ==
  \E c \in closedAwaiting : c \notin chainsById

\* C9: a chain whose hops are all noisy is never stored: every record in the
\* persisted log, and every record handed to storage, has at least one event
\* and at least one non-noisy event; and a finalization that runs on a live
\* chain whose hops are all noisy removes the chain and hands nothing to
\* storage.
C9_StoredHasNonNoisyEvent(record) ==
  /\ Len(record.events) >= 1
  /\ \E n \in DOMAIN record.events : record.events[n].noise = "false"

C9_AllNoise(chain) ==
  /\ chain.events # <<>>
  /\ \A n \in DOMAIN chain.events : chain.events[n].noise = "true"

C9_Finalized(c) ==
  /\ c \in chainsById
  /\ chains[c].pendingFinalDetails # <<>>
  /\ chains'[c].pendingFinalDetails = <<>>

C9_AllNoiseNeverStored ==
  /\ [](/\ \A n \in DOMAIN redirectLog :
             C9_StoredHasNonNoisyEvent(redirectLog[n])
        /\ \A i \in DOMAIN tasks : C9_StoredHasNonNoisyEvent(tasks[i].record))
  /\ [][\A c \in chainsById :
          C9_AllNoise(chains[c]) /\ C9_Finalized(c)
            => /\ c \notin chainsById'
               /\ tasks' = tasks
               /\ redirectLog' = redirectLog]_vars

\* C9 witness: a chain of no tab whose hops are all noisy completed, was
\* finalized (only finalizeChainRecord clears the completion of a chain that
\* never awaits) and is gone, and nothing was written for it.
C9_Witness ==
  \E c \in DOMAIN chains \ chainsById :
    /\ chains[c].tabId = -1
    /\ C9_AllNoise(chains[c])
    /\ chains[c].requestIds \cap finished # {}
    /\ chains[c].pendingFinalDetails = <<>>
    /\ \A n \in DOMAIN appended : appended[n] # c

\* C8: prepareEventsForRecord, for every event list: with at least one
\* non-noisy event, normalizedEvents holds exactly the non-noisy events and
\* no noisy one; with a non-empty list of noisy events only, normalizedEvents
\* holds all of them and allEventsNoisy is true; allEventsNoisy is true
\* exactly when normalizedEvents is non-empty and all its members have
\* noise = true; normalizedEvents is empty only when the input is empty.
C8_Count(events, event) ==
  Cardinality({n \in DOMAIN events : events[n] = event})

\* `out` holds the events of `input` at `indices`, each as often as there
C8_HoldsExactly(out, input, indices) ==
  /\ Len(out) = Cardinality(indices)
  /\ \A i \in indices :
       C8_Count(out, normalizeEventForRecord(input[i], clock)) =
         Cardinality({j \in indices :
           normalizeEventForRecord(input[j], clock) =
             normalizeEventForRecord(input[i], clock)})

C8_NonNoisy(events) == {i \in DOMAIN events : events[i].noise # "true"}

C8_Prepared(events, prepared) ==
  /\ C8_NonNoisy(events) # {}
       => /\ C8_HoldsExactly(prepared.normalizedEvents, events,
                             C8_NonNoisy(events))
          /\ \A n \in DOMAIN prepared.normalizedEvents :
               prepared.normalizedEvents[n].noise = "false"
  /\ events # <<>> /\ C8_NonNoisy(events) = {}
       => /\ C8_HoldsExactly(prepared.normalizedEvents, events,
                             DOMAIN events)
          /\ prepared.allEventsNoisy
  /\ prepared.allEventsNoisy <=>
       /\ prepared.normalizedEvents # <<>>
       /\ \A n \in DOMAIN prepared.normalizedEvents :
            prepared.normalizedEvents[n].noise = "true"
  /\ prepared.normalizedEvents = <<>> => events = <<>>

C8_PreparedEventsPartition ==
  callArgs.fn = "prepareEventsForRecord" /\ callResult # <<>>
    => C8_Prepared(callArgs.events, callResult[1])

\* C8 witness: prepareEventsForRecord returned for a list that mixes noisy
\* and non-noisy events.
C8_Witness ==
  /\ callArgs.fn = "prepareEventsForRecord"
  /\ callResult # <<>>
  /\ C8_NonNoisy(callArgs.events) # {}
  /\ C8_NonNoisy(callArgs.events) # DOMAIN callArgs.events

\* C10: classifyRecord returns one classification and media takes
\* precedence: whenever a media signal holds (a hop of type media, completion
\* type media, a media file extension on the final URL, or a media
\* content-type) the result is likely-media, however many tracking
\* heuristics match as well.
C10_MediaSignal(record, completionDetails) ==
  \/ \E n \in DOMAIN record.events : record.events[n].type = "media"
  \/ completionDetails.type = "media"
  \/ hasMediaExtension(record.finalUrl)
  \/ isMediaContentType(
       getHeaderValue(completionDetails.responseHeaders, "content-type"))

C10_MediaTakesPrecedence ==
  callArgs.fn = "classifyRecord" /\ callResult # <<>>
    => /\ callResult[1].classification
            \in {"likely-media", "likely-tracking", "normal"}
       /\ C10_MediaSignal(callArgs.record, callArgs.completionDetails)
            => callResult[1].classification = "likely-media"

\* C10 witness: classifyRecord returned for a record with a media signal on
\* which at least two tracking heuristics match too.
C10_Witness ==
  /\ callArgs.fn = "classifyRecord"
  /\ callResult # <<>>
  /\ C10_MediaSignal(callArgs.record, callArgs.completionDetails)
  /\ Len(callArgs.record.events) <= 1
  /\ callArgs.completionDetails.type = "image"
  /\ hasTrackingKeyword(callArgs.record.finalUrl)

\* C4: in the scenario (request A: http://x.com -301-> http://x.com/y -302->
\* https://z.com/final, completed with 200, no other event) the system
\* eventually has persisted exactly one record, with exactly 2 events,
\* finalUrl https://z.com/final, finalStatus 200 and classification normal,
\* and from then on holds no live chain for request A; it never writes a
\* second record.
C4_OneRecord ==
  /\ Len(redirectLog) = 1
  /\ Len(appended) = 1
  /\ Len(redirectLog[1].events) = 2
  /\ redirectLog[1].finalUrl = "https://z.com/final"
  /\ redirectLog[1].finalStatus = "200"
  /\ redirectLog[1].classification = "normal"

C4_NoLiveChain ==
  /\ "A" \notin DOMAIN requestToChain
  /\ \A c \in chainsById : "A" \notin chains[c].requestIds

C4_ScenarioPersistsOneRecord ==
  /\ <>[](C4_OneRecord /\ C4_NoLiveChain)
  /\ [](Len(appended) <= 1)

\* C4 witness: the scenario has run to its end: request A completed, its
\* record is in the log and its chain is gone.
C4_Witness ==
  /\ "A" \in finished
  /\ Len(redirectLog) = 1
  /\ redirectLog[1].requestId = "A"
  /\ Len(redirectLog[1].events) = 2
  /\ chainsById = {}

\* The number of tracking heuristics that match a classifyRecord call: at
\* most one hop, all hops image-typed, pixel extension on the final URL,
\* tracking keyword in the final URL, noisy final URL, completion type
\* image, content-type containing image/, content-length <= 2048.
C11_Matched(record, completionDetails) ==
  LET contentType ==
        LowerSeq(getHeaderValue(completionDetails.responseHeaders,
                                "content-type"))
      contentLength ==
        parseContentLength(
          getHeaderValue(completionDetails.responseHeaders, "content-length"))
      Fires(n) ==
        CASE n = 1 -> Len(record.events) <= 1
          [] n = 2 -> /\ Len(record.events) > 0
                      /\ \A i \in DOMAIN record.events :
                           record.events[i].type = "image"
          [] n = 3 -> hasPixelExtension(record.finalUrl)
          [] n = 4 -> hasTrackingKeyword(record.finalUrl)
          [] n = 5 -> isNoisyUrl(record.finalUrl)
          [] n = 6 -> completionDetails.type = "image"
          [] n = 7 -> SeqContains(contentType, "image/")
          [] n = 8 -> contentLength # NoLength /\ contentLength <= 2048
  IN Cardinality({n \in 1..8 : Fires(n)})

\* C11 as stated: classifyRecord returns likely-tracking if and only if at
\* least two of the tracking heuristics matched, and normal with fewer than
\* two.
C11_TrackingIffTwoHeuristics ==
  callArgs.fn = "classifyRecord" /\ callResult # <<>>
    => LET matched == C11_Matched(callArgs.record, callArgs.completionDetails)
       IN /\ callResult[1].classification = "likely-tracking" <=> matched >= 2
          /\ matched < 2 => callResult[1].classification = "normal"

\* C11 amended: when no media signal holds, classifyRecord returns
\* likely-tracking if and only if at least two of the tracking heuristics
\* matched, and normal with fewer than two; when a media signal holds it
\* returns likely-media whatever the number of matching heuristics.
C11_TrackingIffTwoHeuristicsAndNoMedia ==
  callArgs.fn = "classifyRecord" /\ callResult # <<>>
    => LET matched == C11_Matched(callArgs.record, callArgs.completionDetails)
           media == C10_MediaSignal(callArgs.record, callArgs.completionDetails)
       IN /\ callResult[1].classification = "likely-tracking"
               <=> (matched >= 2 /\ ~media)
          /\ callResult[1].classification = "normal"
               <=> (matched < 2 /\ ~media)
          /\ callResult[1].classification = "likely-tracking"
               => Len(callResult[1].classificationReason) = matched

\* C11 witness: classifyRecord returned likely-tracking for a single hop to
\* a URL ending in pixel.gif, completed with content-type image/gif and
\* content-length 512.
C11_Witness ==
  /\ callArgs.fn = "classifyRecord"
  /\ callResult # <<>>
  /\ Len(callArgs.record.events) = 1
  /\ callArgs.record.events[1].type = "main_frame"
  /\ callArgs.completionDetails.type = "main_frame"
  /\ hasPixelExtension(callArgs.record.finalUrl)
  /\ callArgs.completionDetails.responseHeaders =
       <<Header("Content-Type", <<"image/", "gif">>),
         Header("Content-Length", <<"512">>)>>
  /\ callResult[1].classification = "likely-tracking"

\* The six sources of a final URL, in the order of the claim, each absent
\* (Undefined) or a URL: navigation-type completion URL, latest navigational
\* hop target, last hop target, the tab's last committed URL, raw completion
\* URL, initialUrl.
C12_Sources(record, completionDetails, committed) ==
  LET events == record.events
      navigational ==
        {i \in DOMAIN events :
           /\ Truthy(events[i].to)
           /\ (\/ events[i].type \in {"client-redirect", "main_frame"}
               \/ events[i].method = "CLIENT")}
  IN << IF completionDetails.type \in {"main_frame", "sub_frame"}
        THEN completionDetails.url ELSE Undefined,
        IF navigational = {} THEN Undefined
        ELSE events[CHOOSE i \in navigational :
                      \A j \in navigational : j <= i].to,
        IF events = <<>> THEN Undefined ELSE events[Len(events)].to,
        IF record.tabId >= 0 /\ record.tabId \in DOMAIN committed
        THEN committed[record.tabId] ELSE Undefined,
        completionDetails.url,
        record.initialUrl >>

\* the positions of the sources that make up the de-duplicated candidate
\* list: present, and not a repetition of an earlier source
C12_Kept(sources) ==
  {i \in DOMAIN sources :
     /\ Truthy(sources[i])
     /\ \A j \in 1..(i - 1) : sources[j] # sources[i]}

C12_PathEndsInScript(url) ==
  /\ ParseUrl(url).valid
  /\ ParseUrl(url).pathname # <<>>
  /\ Lower(Last(ParseUrl(url).pathname)) \in {".js", ".mjs"}

\* C12: resolveFinalUrl returns the first candidate of the ordered,
\* de-duplicated candidate list that is a navigable browser URL and not
\* noisy, else the first navigable one, else the first candidate, else
\* null; it never returns a URL whose path ends in .js or .mjs when some
\* candidate is navigable.
C12_ResolvesFirstNavigable ==
  callArgs.fn = "resolveFinalUrl" /\ callResult # <<>>
    => LET sources == C12_Sources(callArgs.record, callArgs.completionDetails,
                                  callArgs.committed)
           kept == C12_Kept(sources)
           navigable == {i \in kept : isLikelyBrowserUrl(sources[i])}
           clean == {i \in navigable : ~isNoisyUrl(sources[i])}
           First(S) == sources[CHOOSE i \in S : \A j \in S : i <= j]
       IN /\ callResult[1] =
               IF clean # {} THEN First(clean)
               ELSE IF navigable # {} THEN First(navigable)
               ELSE IF kept # {} THEN First(kept)
               ELSE Null
          /\ navigable # {} => ~C12_PathEndsInScript(callResult[1])

\* C12 witness: resolveFinalUrl returned for a call whose first candidate is
\* a script URL (path ending in .js) while a later candidate is navigable.
C12_Witness ==
  /\ callArgs.fn = "resolveFinalUrl"
  /\ callResult # <<>>
  /\ callArgs.completionDetails.type = "main_frame"
  /\ callArgs.completionDetails.url = "https://z.com/app.js"
  /\ \E i \in DOMAIN callArgs.record.events :
       callArgs.record.events[i].to = "https://www.google-analytics.com/collect"
  /\ callResult[1] # "https://z.com/app.js"

\* C13: prepareEventsForRecord is idempotent: applied to the
\* normalizedEvents it produced for an event list it yields the same
\* normalizedEvents (same events, same order, same noise flags) and the same
\* allEventsNoisy.
C13_PrepareIsIdempotent ==
  callArgs.fn = "prepareEventsForRecord" /\ Len(callResult) = 2
    => /\ callResult[2].normalizedEvents = callResult[1].normalizedEvents
       /\ callResult[2].allEventsNoisy = callResult[1].allEventsNoisy

\* C13 witness: the second application returned, for a list given out of
\* time order that holds a noisy and a non-noisy event.
C13_Witness ==
  /\ callArgs.fn = "prepareEventsForRecord"
  /\ Len(callResult) = 2
  /\ Len(callArgs.events) >= 2
  /\ callArgs.events[1].timestampMs > callArgs.events[2].timestampMs
  /\ callArgs.events[2].timestampMs # NoTimestamp
  /\ \E i \in DOMAIN callArgs.events : callArgs.events[i].noise = "true"
  /\ \E i \in DOMAIN callArgs.events : callArgs.events[i].noise = "false"
  /\ callResult[1].normalizedEvents # <<>>

\* the log `after` is `record` followed by `before`, cut at the tail to
\* MAX_RECORDS records
C14_PlacedAtHead(after, record, before) ==
  /\ after # <<>>
  /\ after[1] = record
  /\ Len(after) = IF Len(before) < MAX_RECORDS
                  THEN Len(before) + 1 ELSE MAX_RECORDS
  /\ \A n \in 2..Len(after) : after[n] = before[n - 1]

\* C14 as stated: the persisted log never holds more than MAX_RECORDS
\* records, and every successful append places the new record at the head
\* of the log, dropping records only from the tail.
C14_CappedNewestFirst ==
  /\ [](Len(redirectLog) <= MAX_RECORDS)
  /\ [][appended' # appended
          => \E i \in DOMAIN tasks :
               /\ tasks[i].phase = "set"
               /\ tasks'[i].phase = "resume"
               /\ C14_PlacedAtHead(redirectLog', tasks[i].record,
                                   redirectLog)]_vars

\* C14 amended: the persisted log never holds more than MAX_RECORDS
\* records; every successful append writes the new record followed by the
\* log as that append read it, cut at the tail to MAX_RECORDS records,
\* which is the log before the write whenever no other write came between
\* the append's read and its write; clear-log leaves the log empty.
C14_CappedNewestFirstOfSnapshot ==
  /\ [](Len(redirectLog) <= MAX_RECORDS)
  /\ [][/\ appended' # appended
             => \E i \in DOMAIN tasks :
                  /\ tasks[i].phase = "set"
                  /\ tasks'[i].phase = "resume"
                  /\ C14_PlacedAtHead(redirectLog', tasks[i].record,
                                      tasks[i].existing)
        /\ (appended' = appended /\ redirectLog' # redirectLog)
             => redirectLog' = <<>>]_vars

\* C14 witness: an append wrote a full log: the new record is at the head,
\* the records of the stored log follow in their order and the oldest of
\* them are gone.
C14_Witness ==
  /\ appended # <<>>
  /\ Len(redirectLog) = MAX_RECORDS
  /\ redirectLog[1].id = Last(appended)
  /\ redirectLog[2] = StoredRecord(1)
  /\ redirectLog[MAX_RECORDS] = StoredRecord(MAX_RECORDS - 1)

\* the members of a session group: its primary and its satellites
GroupMembers(group) ==
  {group.primary} \cup {group.satellites[i] : i \in DOMAIN group.satellites}

\* the initiation time of a record of the model's inputs, in ms
C15_Time(record) ==
  CHOOSE ms \in SessionTimes : record.initiatedAt = formatTimestamp(ms, ms)

\* C15: buildSessionGroups never places two records whose initiation times
\* differ by more than 60 seconds in the same session group, also when
\* records of the same tab lie between the two.
C15_GroupWithinWindow ==
  callArgs.fn = "buildSessionGroups" /\ callResult # <<>>
    => \A n \in DOMAIN callResult[1] :
         \A a, b \in GroupMembers(callResult[1][n]) :
           C15_Time(a) - C15_Time(b) <= 60000

\* what the claims call noise-classified
C16_Noise(record) ==
  record.classification \in {"likely-tracking", "likely-media"}

\* a record that is pending or has tabId 0 or -1
C16_Alone(record) == record.pending \/ record.tabId \in {0, -1}

\* the positions of the groups whose primary is `record`
C16_GroupsOf(groups, record) ==
  {n \in DOMAIN groups : groups[n].primary = record}

\* no such record is a satellite or has satellites, and no group mixes tabs
C16_NeverGrouped(records, groups) ==
  /\ \A i \in DOMAIN records :
       C16_Alone(records[i])
         => \A n \in DOMAIN groups :
              /\ records[i] \notin
                   {groups[n].satellites[k] : k \in DOMAIN groups[n].satellites}
              /\ groups[n].primary = records[i]
                   => groups[n].satellites = <<>>
  /\ \A n \in DOMAIN groups :
       \A a, b \in GroupMembers(groups[n]) : a.tabId = b.tabId

C17_Before(a, b) ==
  \/ ~C16_Noise(a) /\ C16_Noise(b)
  \/ /\ C16_Noise(a) = C16_Noise(b)
     /\ Len(a.events) > Len(b.events)
  \/ /\ C16_Noise(a) = C16_Noise(b)
     /\ Len(a.events) = Len(b.events)
     /\ C15_Time(a) < C15_Time(b)

\* C17: with showingNoise = true the primary of every session group is
\* minimal among the group's members under the order non-noise before
\* noise, then more hops before fewer, then earlier initiation; a non-noise
\* record is primary over a noise record of its group even if the noise
\* record has more hops.
C17_PrimaryIsMinimal ==
  callArgs.fn = "buildSessionGroups" /\ callResult # <<>>
    /\ callArgs.showingNoise
    => \A n \in DOMAIN callResult[1] :
         \A member \in GroupMembers(callResult[1][n]) :
           ~C17_Before(member, callResult[1][n].primary)

\* C17 witness: a group whose primary is a non-noise record with one hop
\* and which has a noise-classified satellite with two hops.
C17_Witness ==
  /\ callArgs.fn = "buildSessionGroups"
  /\ callResult # <<>>
  /\ callArgs.showingNoise
  /\ \E n \in DOMAIN callResult[1] :
       /\ ~C16_Noise(callResult[1][n].primary)
       /\ Len(callResult[1][n].primary.events) = 1
       /\ \E k \in DOMAIN callResult[1][n].satellites :
            /\ C16_Noise(callResult[1][n].satellites[k])
            /\ Len(callResult[1][n].satellites[k].events) = 2

\* the hosts of a record: over initialUrl, finalUrl, initiator and all hop
\* from/to URLs
C18_Hosts(record) ==
  LET urls ==
        {record.initialUrl, record.finalUrl, record.initiator}
        \cup {record.events[i].from : i \in DOMAIN record.events}
        \cup {record.events[i].to : i \in DOMAIN record.events}
  IN {<<ParseUrl(u).hostname, ParseUrl(u).port>> :
        u \in {v \in urls : ParseUrl(v).valid}}

\* C18: each satellite of a session group shares at least one host with the
\* group's primary, and a record of the primary's tab that shares no host
\* with the primary is not in the primary's group (with showingNoise = true
\* it is in another group).
C18_SatellitesShareHost ==
  callArgs.fn = "buildSessionGroups" /\ callResult # <<>>
    => \A n \in DOMAIN callResult[1] :
         LET group == callResult[1][n] IN
           /\ \A k \in DOMAIN group.satellites :
                C18_Hosts(group.satellites[k]) \cap C18_Hosts(group.primary)
                  # {}
           /\ \A i \in DOMAIN callArgs.records :
                LET record == callArgs.records[i] IN
                  (/\ record.tabId = group.tabId
                   /\ C18_Hosts(record) \cap C18_Hosts(group.primary) = {})
                    => /\ record \notin GroupMembers(group)
                       /\ callArgs.showingNoise
                            => \E m \in DOMAIN callResult[1] \ {n} :
                                 record \in GroupMembers(callResult[1][m])

\* C18 witness: one tab, one time: a record of x.com, an analytics record
\* whose initiator is x.com and a record of z.com; the analytics record is
\* a satellite of the x.com record and the z.com record has its own group.
C18_Witness ==
  /\ callArgs.fn = "buildSessionGroups"
  /\ callResult # <<>>
  /\ Len(callArgs.records) = 3
  /\ Len(callResult[1]) = 2
  /\ \E n \in DOMAIN callResult[1] :
       /\ callResult[1][n].primary.initialUrl = "http://x.com"
       /\ Len(callResult[1][n].satellites) = 1
       /\ callResult[1][n].satellites[1].initiator = "http://x.com"
       /\ callResult[1][n].satellites[1].initialUrl
            = "https://www.google-analytics.com/collect"
  /\ \E n \in DOMAIN callResult[1] :
       /\ callResult[1][n].primary.initialUrl = "https://z.com/app.js"
       /\ callResult[1][n].satellites = <<>>

\* C19: with showingNoise = false no returned group has a primary
\* classified likely-tracking or likely-media and no satellite list holds
\* such a record.
C19_NoiseHidden ==
  callArgs.fn = "buildSessionGroups" /\ callResult # <<>>
    /\ ~callArgs.showingNoise
    => \A n \in DOMAIN callResult[1] :
         \A member \in GroupMembers(callResult[1][n]) :
           member.classification \notin {"likely-tracking", "likely-media"}

\* C19 witness: with showingNoise = false the list held a noise-classified
\* record of no tab and, in one tab at one time, a normal record and a
\* noise-classified record sharing its host; one group is returned, the
\* normal record without satellites.
C19_Witness ==
  /\ callArgs.fn = "buildSessionGroups"
  /\ callResult # <<>>
  /\ ~callArgs.showingNoise
  /\ Len(callArgs.records) = 3
  /\ callArgs.records[1] =
       [GroupRecord(1, FALSE, 0, "likely-media", "xz2") EXCEPT !.ref = 1]
  /\ callArgs.records[2] =
       [GroupRecord(1, FALSE, 0, "normal", "x1") EXCEPT !.ref = 2]
  /\ callArgs.records[3] =
       [GroupRecord(0, FALSE, 0, "likely-tracking", "x1") EXCEPT !.ref = 3]
  /\ Len(callResult[1]) = 1
  /\ callResult[1][1].satellites = <<>>


\* the error message of the completion chain c is waiting to persist, or
\* Null
C20_PendingError(c) ==
  IF chains[c].pendingFinalDetails = <<>> THEN Null
  ELSE chains[c].pendingFinalDetails[1].errorMessage

\* C20: once a request-errored event has stored its error message as a
\* chain's completion, every step that is not a further network completion
\* (a navigation-committed event, a timer, a storage step) keeps that
\* message as the chain's pending completion, and the record built for the
\* chain carries it in its error field.
C20_ErrorReachesRecord ==
  [][\A c \in DOMAIN chains :
       (C20_PendingError(c) # Null /\ finished' = finished)
         => /\ chains'[c].pendingFinalDetails # <<>>
                 => chains'[c].pendingFinalDetails[1].errorMessage
                      = C20_PendingError(c)
            /\ \A i \in DOMAIN tasks' \ DOMAIN tasks :
                 tasks'[i].chain = c
                   => tasks'[i].record.error = C20_PendingError(c)]_vars


\* C21: no record that was in the persisted log when a clear-log command
\* completed is in the log afterwards, however the clear interleaves with
\* the read and the write of a concurrent appendRedirectRecord.
C21_ClearedRecordsStayCleared ==
  \A n \in DOMAIN redirectLog : redirectLog[n] \notin cleared


\* C22: each live chain is the value of at most one tabChains slot; every
\* tabChains entry maps a tab to a chain that is in chainsById and whose
\* tabId is that tab; every pendingClientRedirects entry maps a tab to a
\* chain of that tab that is in chainsById and awaiting a client redirect.
C22_TabSlotsConsistent ==
  /\ \A t1, t2 \in DOMAIN tabChains :
       (tabChains[t1] = tabChains[t2] /\ tabChains[t1] \in chainsById)
         => t1 = t2
  /\ \A t \in DOMAIN tabChains :
       /\ tabChains[t] \in chainsById
       /\ chains[tabChains[t]].tabId = t
  /\ \A t \in DOMAIN pendingClientRedirects :
       /\ pendingClientRedirects[t].chainId \in chainsById
       /\ chains[pendingClientRedirects[t].chainId].tabId = t
       /\ chains[pendingClientRedirects[t].chainId].awaitingClientRedirect


\* the live chain the request id is mapped to, or NoChain
C23_Mapped(requestId) ==
  IF /\ requestId \in DOMAIN requestToChain
     /\ requestToChain[requestId] \in chainsById
  THEN requestToChain[requestId] ELSE NoChain

\* the queue registered under a key, <<>> for none
C23_Queue(targets, key) ==
  IF key \in DOMAIN targets THEN targets[key] ELSE <<>>

\* the first live chain registered under a key, or NoChain
C23_Registered(key) ==
  LET queue == C23_Queue(pendingRedirectTargets, key)
      live == {i \in DOMAIN queue : queue[i] \in chainsById}
  IN IF live = {} THEN NoChain
     ELSE queue[CHOOSE i \in live : \A j \in live : i <= j]

C23_TabKey(details) ==
  <<IF details.tabId >= 0 THEN ToString(details.tabId) ELSE "no-tab",
    details.url>>

C23_AnyKey(details) == <<"any-tab", details.url>>

\* the strategy that finds a chain for a request-begin event in the
\* current state, and the chain: (a) the request id, (b) the registration
\* under the tab's key, then under the any-tab key (whose chain must start
\* at the url's host), otherwise (c)
C23_Choice(details) ==
  IF C23_Mapped(details.requestId) # NoChain
  THEN <<"a", C23_Mapped(details.requestId)>>
  ELSE IF C23_Registered(C23_TabKey(details)) # NoChain
  THEN <<"b-tab", C23_Registered(C23_TabKey(details))>>
  ELSE IF /\ C23_Registered(C23_AnyKey(details)) # NoChain
          /\ UrlHost(chains[C23_Registered(C23_AnyKey(details))].initialUrl)
               = UrlHost(details.url)
  THEN <<"b-any", C23_Registered(C23_AnyKey(details))>>
  ELSE <<"c", NoChain>>

\* strategy (c) did nothing in the step to `after`: no pending client
\* redirect of another chain than c was consumed, no chain got a hop and no
\* other chain was changed
C23_ClientRedirectsUntouched(after, c) ==
  /\ \A t \in DOMAIN pendingClientRedirects :
       pendingClientRedirects[t].chainId # c
         => /\ t \in DOMAIN after.pendingClientRedirects
            /\ after.pendingClientRedirects[t] = pendingClientRedirects[t]
  /\ after.chains[c].events = chains[c].events
  /\ \A k \in DOMAIN chains : k # c => after.chains[k] = chains[k]

C24_FirstLive(queue) ==
  LET live == {i \in DOMAIN queue : queue[i] \in chainsById} IN
    IF live = {} THEN 0 ELSE CHOOSE i \in live : \A j \in live : i <= j

\* the queue without the entries up to and including the first live one
C24_Rest(queue) ==
  IF C24_FirstLive(queue) = 0 THEN <<>>
  ELSE SubSeq(queue, C24_FirstLive(queue) + 1, Len(queue))

\* C24: every pending-redirect-target queue is FIFO: a request-begin event
\* whose request id is not yet mapped and whose key has live registrations
\* is attached to the chain that registered first; exactly that entry and
\* the torn-down entries ahead of it leave the queue, the later
\* registrations keep their order, and no other queue changes (the any-tab
\* queue is asked only when the tab's queue holds no live chain).
C24_QueuesAreFifo ==
  \A details \in NavBeforeRequestDetails :
    C23_Mapped(details.requestId) = NoChain
      => LET after == handleBeforeRequest(State, details)
             tabQueue == C23_Queue(pendingRedirectTargets, C23_TabKey(details))
             anyQueue == C23_Queue(pendingRedirectTargets, C23_AnyKey(details))
             attached ==
               IF details.requestId \in DOMAIN after.requestToChain
               THEN after.requestToChain[details.requestId] ELSE NoChain
         IN
           /\ \A key \in DOMAIN pendingRedirectTargets :
                key \notin {C23_TabKey(details), C23_AnyKey(details)}
                  => C23_Queue(after.pendingRedirectTargets, key)
                       = pendingRedirectTargets[key]
           /\ C23_Queue(after.pendingRedirectTargets, C23_TabKey(details))
                = C24_Rest(tabQueue)
           /\ C24_FirstLive(tabQueue) # 0
                => /\ attached = tabQueue[C24_FirstLive(tabQueue)]
                   /\ C23_Queue(after.pendingRedirectTargets,
                                C23_AnyKey(details)) = anyQueue
           /\ (C24_FirstLive(tabQueue) = 0 /\ C24_FirstLive(anyQueue) # 0)
                => /\ attached = anyQueue[C24_FirstLive(anyQueue)]
                   /\ C23_Queue(after.pendingRedirectTargets,
                                C23_AnyKey(details)) = C24_Rest(anyQueue)


\* the chain awaiting a client redirect in the tab, or NoChain
C25_Awaiting(tabId) ==
  IF /\ tabId \in DOMAIN pendingClientRedirects
     /\ pendingClientRedirects[tabId].chainId \in chainsById
  THEN pendingClientRedirects[tabId].chainId ELSE NoChain

\* the url is of another host than the url the tab's wait began at
C25_OtherHost(tabId, url) ==
  UrlHost(url) # UrlHost(pendingClientRedirects[tabId].fromUrl)

\* C25: every chain event of type client-redirect has statusCode "JS",
\* method "CLIENT" and a from url and a to url of the same host; a
\* request-begin event that no redirect registration claims, or a committed
\* navigation, to another host than the one the tab's wait began at adds
\* no hop to the tab's awaiting chain, and such a request is not attached
\* to it.
C25_ClientHopsStayOnHost ==
  /\ \A c \in DOMAIN chains : \A i \in DOMAIN chains[c].events :
       chains[c].events[i].type = "client-redirect"
         => /\ chains[c].events[i].statusCode = "JS"
            /\ chains[c].events[i].method = "CLIENT"
            /\ ParseUrl(chains[c].events[i].from).valid
            /\ ParseUrl(chains[c].events[i].to).valid
            /\ UrlHost(chains[c].events[i].from)
                 = UrlHost(chains[c].events[i].to)
  /\ \A details \in NavBeforeRequestDetails :
       (/\ C23_Choice(details)[1] = "c"
        /\ C25_Awaiting(details.tabId) # NoChain
        /\ C25_OtherHost(details.tabId, details.url))
         => LET after == handleBeforeRequest(State, details) IN
              /\ after.chains[C25_Awaiting(details.tabId)].events
                   = chains[C25_Awaiting(details.tabId)].events
              /\ details.requestId
                   \notin after.chains[C25_Awaiting(details.tabId)].requestIds
  /\ \A details \in NavCommittedDetails :
       (/\ C25_Awaiting(details.tabId) # NoChain
        /\ C25_OtherHost(details.tabId, details.url))
         => handleWebNavigationCommitted(State, details)
              .chains[C25_Awaiting(details.tabId)].events
              = chains[C25_Awaiting(details.tabId)].events

\* C25 witness: navigation N began at http://x.com while the chain of
\* request A was awaiting a client redirect at http://x.com/y, and the
\* chain got the client-redirect hop http://x.com/y -> http://x.com.
C25_Witness ==
  \E c \in chainsById :
    /\ {"A", "N"} \subseteq chains[c].requestIds
    /\ Len(chains[c].events) = 2
    /\ chains[c].events[2].type = "client-redirect"
    /\ chains[c].events[2].from = "http://x.com/y"
    /\ chains[c].events[2].to = "http://x.com"
    /\ 1 \notin DOMAIN pendingClientRedirects


\* the completion and error events the browser may deliver now
C26_Completions ==
  { <<details, Undefined>> : details \in NavCompletedDetails }
    \cup { <<details, IF details.error = "" THEN "Unknown network error"
                      ELSE details.error>> : details \in NavErrorDetails }

\* the event is recorded on chain c: the chain has a hop and the event is
\* not a non-navigational completion arriving during a wait
C26_Recorded(c, details) ==
  /\ c # NoChain
  /\ chains[c].events # <<>>
  /\ ~(chains[c].awaitingClientRedirect /\ details.type # "main_frame")

\* C26: after a completion or error event with a noisy url has been
\* recorded on a chain, the chain is not awaiting a client redirect and its
\* finalization is scheduled on the fixed delay, whether the chain was
\* active, awaiting or already finalizing when the event arrived.
C26_NoisyCompletionFinalizes ==
  \A completion \in C26_Completions :
    (/\ completion[1].requestId \notin finished
     /\ isNoisyUrl(completion[1].url)
     /\ C26_Recorded(C23_Mapped(completion[1].requestId), completion[1]))
      => LET after == finalizeChain(State, completion[1], completion[2])
             c == C23_Mapped(completion[1].requestId)
         IN /\ ~after.chains[c].awaitingClientRedirect
            /\ after.chains[c].awaitingClientRedirectTimer = 0
            /\ after.chains[c].finalizeTimer = CHAIN_FINALIZATION_DELAY_MS


\* the event is a status-200 text/html response of a frame
C27_HtmlPage(details) ==
  /\ details.statusCode = "200"
  /\ details.type \in {"main_frame", "sub_frame"}
  /\ \E i \in DOMAIN details.responseHeaders :
       /\ Lower(details.responseHeaders[i].name) = "content-type"
       /\ "text/html" \in
            {Lower(details.responseHeaders[i].value[k]) :
               k \in DOMAIN details.responseHeaders[i].value}

\* the event makes its chain await a client redirect
C27_Awaits(details) ==
  \/ /\ details.tabId >= 0
     /\ details.type \in {"main_frame", "sub_frame", Undefined}
  \/ C27_HtmlPage(details)

\* what C27 says of the chain c after finalizeChain took it to `after`
C27_Outcome(after, c, details) ==
  IF C27_Awaits(details)
  THEN /\ after.chains[c].awaitingClientRedirect
       /\ after.chains[c].awaitingClientRedirectTimer # 0
  ELSE /\ ~after.chains[c].awaitingClientRedirect
       /\ after.chains[c].finalizeTimer = CHAIN_FINALIZATION_DELAY_MS
       /\ c \in after.chainsById
       /\ after.tasks = tasks

C28_AfterExpiry(c) ==
  FinalizeTimeout(AwaitingClientRedirectTimeout(State, c), c)

\* C28: while a chain is awaiting a client redirect its pendingFinalDetails
\* is non-null, and if the wait expires and the finalization delay elapses
\* with no further request or navigation, the record then built for the
\* chain carries the status code, request id and error of that completion.
C28_ExpiryUsesRecordedCompletion ==
  \A c \in chainsById :
    (chains[c].awaitingClientRedirect
       /\ chains[c].awaitingClientRedirectTimer # 0)
      => /\ chains[c].pendingFinalDetails # <<>>
         /\ \A i \in DOMAIN C28_AfterExpiry(c).tasks \ DOMAIN tasks :
              LET record == C28_AfterExpiry(c).tasks[i].record
                  completion == chains[c].pendingFinalDetails[1]
              IN /\ record.id = chains[c].id
                 /\ record.finalStatus = completion.details.statusCode
                 /\ record.requestId = completion.details.requestId
                 /\ record.error = completion.errorMessage


\* the chain a request id is mapped to in the state `after`
C29_Attached(after, requestId) ==
  IF requestId \in DOMAIN after.requestToChain
  THEN after.requestToChain[requestId] ELSE NoChain

\* C29: a request-begin event that is attached to a chain awaiting a client
\* redirect cancels the wait: afterwards the chain is not awaiting, its
\* await timer and its countdown interval are not armed, and no entry of
\* pendingClientRedirects names the chain.
C29_AttachCancelsWait ==
  \A details \in TabsRequestDetails :
    LET after == handleBeforeRequest(State, details)
        c == C29_Attached(after, details.requestId)
    IN (c \in chainsById /\ chains[c].awaitingClientRedirect)
         => /\ ~after.chains[c].awaitingClientRedirect
            /\ after.chains[c].awaitingClientRedirectTimer = 0
            /\ after.chains[c].awaitingClientRedirectInterval = 0
            /\ \A t \in DOMAIN after.pendingClientRedirects :
                 after.pendingClientRedirects[t].chainId # c


\* C30: a completion or error event of a request of a chain that is
\* awaiting a client redirect, with a resource type that is present and
\* not main_frame, leaves the chain as it is: pendingFinalDetails, the
\* awaiting flag and deadline and every timer keep their values, and so
\* does the tab's pendingClientRedirects entry.
C30_NonNavigationalCompletionIgnored ==
  \A completion \in C26_Completions :
    LET c == C23_Mapped(completion[1].requestId)
        after == finalizeChain(State, completion[1], completion[2])
    IN (/\ c # NoChain
        /\ chains[c].awaitingClientRedirect
        /\ Truthy(completion[1].type)
        /\ completion[1].type # "main_frame")
         => /\ after.chains[c] = chains[c]
            /\ after.chainsById = chainsById
            /\ after.pendingClientRedirects = pendingClientRedirects
            /\ after.tasks = tasks

\* C30 witness: image request B joined the chain of navigation A, the
\* completion of A made the chain await a client redirect, and B completed
\* during the wait: the chain still awaits with the completion of A, no
\* finalization timer armed and no record built.
C30_Witness ==
  /\ tasks = <<>>
  /\ redirectLog = <<>>
  /\ {"A", "B"} \subseteq finished
  /\ \E c \in chainsById :
       /\ {"A", "B"} \subseteq chains[c].requestIds
       /\ chains[c].awaitingClientRedirect
       /\ chains[c].awaitingClientRedirectTimer # 0
       /\ chains[c].finalizeTimer = 0
       /\ chains[c].pendingFinalDetails # <<>>
       /\ chains[c].pendingFinalDetails[1].details.requestId = "A"


\* no index names chain c in the state s: no request id, tab slot, pending
\* client redirect or redirect-target queue entry
C31_Unindexed(s, c) ==
  /\ \A r \in DOMAIN s.requestToChain : s.requestToChain[r] # c
  /\ \A t \in DOMAIN s.tabChains : s.tabChains[t] # c
  /\ \A t \in DOMAIN s.pendingClientRedirects :
       s.pendingClientRedirects[t].chainId # c
  /\ \A k \in DOMAIN s.pendingRedirectTargets :
       \A n \in DOMAIN s.pendingRedirectTargets[k] :
         s.pendingRedirectTargets[k][n] # c

\* the chain a completion or error event is recorded on, NoChain when the
\* event is dropped (no chain, a chain without hops, or a non-navigational
\* event during a wait)
C31_RecordedOn(details) ==
  Let(getChainByRequestId(State, details.requestId), LAMBDA c :
    IF c = NoChain THEN NoChain
    ELSE IF chains[c].events = <<>> THEN NoChain
    ELSE IF /\ chains[c].awaitingClientRedirect
            /\ Truthy(details.type)
            /\ details.type # "main_frame"
    THEN NoChain
    ELSE c)

\* C31: when the inactivity timer of a chain fires the chain is torn down
\* whatever it holds: all its timers are cleared, it leaves chainsById and
\* every index, and no record is built or appended for it; every request
\* attach and every recorded completion or error arms the inactivity timer
\* with the full timeout.
C31_InactivityTearsDown ==
  /\ \A c \in chainsById :
       chains[c].cleanupTimer # 0 =>
         LET after == CleanupTimeout(State, c) IN
           /\ c \notin after.chainsById
           /\ after.chains[c].finalizeTimer = 0
           /\ after.chains[c].awaitingClientRedirectTimer = 0
           /\ after.chains[c].awaitingClientRedirectInterval = 0
           /\ after.chains[c].cleanupTimer = 0
           /\ C31_Unindexed(after, c)
           /\ after.tasks = tasks
  /\ \A details \in TabsRequestDetails :
       LET after == handleBeforeRequest(State, details) IN
         details.requestId \in DOMAIN after.requestToChain
           => after.chains[after.requestToChain[details.requestId]]
                .cleanupTimer = ACTIVE_CHAIN_TIMEOUT_MS
  /\ \A details \in
         CompletedDetailsOf(TabsRequests) \cup ErrorDetailsOf(TabsRequests) :
       C31_RecordedOn(details) # NoChain
         => finalizeChain(State, details, Undefined)
              .chains[C31_RecordedOn(details)].cleanupTimer
                = ACTIVE_CHAIN_TIMEOUT_MS


\* C32: a chain that is awaiting a client redirect has no finalize timer
\* armed and no finalization of it is under way: entering the wait cancels
\* a scheduled finalization, so no record of the chain is built while it
\* waits.
C32_AwaitingExcludesFinalizing ==
  \A c \in chainsById :
    chains[c].awaitingClientRedirect
      => /\ chains[c].finalizeTimer = 0
         /\ \A i \in DOMAIN tasks : tasks[i].record.id # chains[c].id


\* C33: prepareEventsForRecord, when every event of a non-empty list is
\* noisy, returns an empty normalizedNoiseEvents (the hops are reported once,
\* in normalizedEvents); with at least one non-noisy event
\* normalizedNoiseEvents holds exactly the noisy events; normalizedEvents and
\* normalizedNoiseEvents never share a hop.
C33_Prepared(events, prepared) ==
  /\ events # <<>> /\ C8_NonNoisy(events) = {}
       => prepared.normalizedNoiseEvents = <<>>
  /\ C8_NonNoisy(events) # {}
       => C8_HoldsExactly(prepared.normalizedNoiseEvents, events,
                          DOMAIN events \ C8_NonNoisy(events))
  /\ \A i \in DOMAIN prepared.normalizedEvents :
       \A j \in DOMAIN prepared.normalizedNoiseEvents :
         prepared.normalizedEvents[i] # prepared.normalizedNoiseEvents[j]

C33_NoiseEventsReportedOnce ==
  callArgs.fn = "prepareEventsForRecord" /\ callResult # <<>>
    => C33_Prepared(callArgs.events, callResult[1])


\* C34: an event or timer that refers to a chain which is not present is a
\* no-op: a completion or an error for a request id that is mapped to no
\* chain, and finalizeChainRecord with a chain id that is no longer in
\* chainsById, change no chain state, no index and no persisted record.
C34_AbsentChainIsNoOp ==
  /\ \A details \in NavCompletedDetails :
       getChainByRequestId(State, details.requestId) = NoChain
         => handleRequestCompleted(State, details) = State
  /\ \A details \in NavErrorDetails :
       getChainByRequestId(State, details.requestId) = NoChain
         => handleRequestError(State, details) = State
  /\ \A c \in DOMAIN chains \ chainsById :
       /\ finalizeChainRecord(State, c) = State
       /\ FinalizeTimeout(State, c) = State

\* C34 witness: a request of a tab that has a chain is under way and mapped
\* to no chain, and a chain has been removed from chainsById.
C34_Witness ==
  /\ \E details \in NavCompletedDetails :
       /\ getChainByRequestId(State, details.requestId) = NoChain
       /\ details.tabId \in DOMAIN tabChains
  /\ DOMAIN chains \ chainsById # {}


\* C35: a request-begin that ends up attached to no chain is ignored:
\* chainsById, every chain's fields and timers, requestToChain, tabChains,
\* pendingClientRedirects and pendingRedirectTargets are the same after the
\* handler as before it.
C35_UnattachedRequestIgnored ==
  \A details \in NavBeforeRequestDetails :
    LET after == handleBeforeRequest(State, details) IN
      getChainByRequestId(after, details.requestId) = NoChain
        => /\ after.chainsById = chainsById
           /\ after.chains = chains
           /\ after.requestToChain = requestToChain
           /\ after.tabChains = tabChains
           /\ after.pendingClientRedirects = pendingClientRedirects
           /\ after.pendingRedirectTargets = pendingRedirectTargets


\* the url the pending client redirect of the tab is compared with
C36_FromUrl(tabId) ==
  OrElse(PendingFromUrl(pendingClientRedirects[tabId],
                        chains[pendingClientRedirects[tabId].chainId]),
    OrElse(MapGet(tabLastCommittedUrl, tabId, Undefined),
           chains[pendingClientRedirects[tabId].chainId].initialUrl))

\* a main_frame request-begin that no request id and no registered redirect
\* target attaches, in a tab whose pending client-redirect chain is live and
\* has another host than the request's url
C36_StartsFresh(details) ==
  /\ details.type = "main_frame"
  /\ details.tabId \in DOMAIN pendingClientRedirects
  /\ pendingClientRedirects[details.tabId].chainId \in chainsById
  /\ getChainByRequestId(State, details.requestId) = NoChain
  /\ consumePendingRedirectTarget(State, details).chain = NoChain
  /\ \/ ~Truthy(C36_FromUrl(details.tabId))
     \/ ~sameHost(C36_FromUrl(details.tabId), details.url)

\* C36: when a main_frame request begins in a tab whose pending
\* client-redirect chain has a different host than the new url, the pending
\* chain is finalized and the request starts fresh: the old chain is no
\* longer awaiting and its finalization is scheduled by that request-begin,
\* the tab's pendingClientRedirects entry is removed, and the request is not
\* attached to the old chain.
C36_DifferentHostFinalizesPending ==
  \A details \in NavBeforeRequestDetails :
    C36_StartsFresh(details) =>
      LET old == pendingClientRedirects[details.tabId].chainId
          after == handleBeforeRequest(State, details)
      IN /\ ~after.chains[old].awaitingClientRedirect
         /\ \/ after.chains[old].finalizeTimer # 0
            \/ old \notin after.chainsById
            \/ \E i \in DOMAIN after.tasks :
                 after.tasks[i].record.id = chains[old].id
         /\ details.tabId \notin DOMAIN after.pendingClientRedirects
         /\ C29_Attached(after, details.requestId) # old


\* the ids of the chains the idle specification can create
C37_ChainIds == {ChainIdOf(n) : n \in 1..MaxIdleClock}

C37_Awaiting(c) == c \in chainsById /\ chains[c].awaitingClientRedirect

\* C37: no chain lives forever: every chain in chainsById has its
\* inactivity timer armed, and, timers firing eventually, every chain is
\* eventually removed from chainsById and a chain that awaits a client
\* redirect eventually leaves the wait.
C37_NoChainLivesForever ==
  /\ [](\A c \in chainsById : chains[c].cleanupTimer # 0)
  /\ \A c \in C37_ChainIds : (c \in chainsById) ~> (c \notin chainsById)
  /\ \A c \in C37_ChainIds : C37_Awaiting(c) ~> ~C37_Awaiting(c)

\* C37 witness: the navigation completed, its chain awaited a client
\* redirect, was persisted and has left chainsById, and no chain is left.
C37_Witness ==
  /\ chainsById = {}
  /\ "A" \in finished
  /\ \E c \in DOMAIN chains :
       /\ "A" \in chains[c].requestIds
       /\ SeqContains(appended, c)


\* C38: in every reachable state and for every chain, awaitingClientRedirect
\* is true exactly when the chain's awaitingClientRedirectTimer is armed.
C38_AwaitingIffTimerArmed ==
  \A c \in DOMAIN chains :
    chains[c].awaitingClientRedirect
      <=> chains[c].awaitingClientRedirectTimer # 0

\* C38 witness: a chain whose wait was cancelled by a client redirect
\* attached to it awaits again, with its timer armed.
C38_Witness ==
  \E c \in chainsById :
    /\ chains[c].awaitingClientRedirect
    /\ chains[c].awaitingClientRedirectTimer # 0
    /\ \E n \in DOMAIN chains[c].events :
         chains[c].events[n].type = "client-redirect"


\* how many entries of the queue under `key` carry the chain's id
C39_Registrations(targets, key, c) ==
  IF key \notin DOMAIN targets THEN 0
  ELSE Cardinality({n \in DOMAIN targets[key] : targets[key][n] = c})

C39_Keys(after) ==
  DOMAIN pendingRedirectTargets \cup DOMAIN after.pendingRedirectTargets

\* the handler took a registration of chain c out of a queue
C39_Removed(after, c) ==
  \E key \in C39_Keys(after) :
    C39_Registrations(after.pendingRedirectTargets, key, c)
      < C39_Registrations(pendingRedirectTargets, key, c)

\* C39: a pending redirect-target registration leaves its queue only when a
\* request-begin consumes it and is then attached to the registered chain,
\* or when the registered chain is torn down: no request-begin removes a
\* registration without attaching to that chain, no other event removes one
\* of a chain that stays live, and a chain's pendingRedirectTargetKeys holds
\* a key exactly when some entry of the queue under that key carries the
\* chain's id.
C39_RegistrationsLeaveByAttachOrTeardown ==
  /\ \A details \in NavBeforeRequestDetails :
       LET after == handleBeforeRequest(State, details) IN
         \A c \in chainsById :
           C39_Removed(after, c)
             => \/ c \notin after.chainsById
                \/ C29_Attached(after, details.requestId) = c
  /\ \A details \in NavBeforeRedirectDetails :
       \A c \in chainsById :
         LET after == handleBeforeRedirect(State, details) IN
           C39_Removed(after, c) => c \notin after.chainsById
  /\ \A details \in NavCompletedDetails :
       \A c \in chainsById :
         LET after == handleRequestCompleted(State, details) IN
           C39_Removed(after, c) => c \notin after.chainsById
  /\ \A c \in chainsById :
       \A key \in DOMAIN pendingRedirectTargets
                    \cup chains[c].pendingRedirectTargetKeys :
         key \in chains[c].pendingRedirectTargetKeys
           <=> C39_Registrations(pendingRedirectTargets, key, c) > 0


\* the places of the grouping a record appears at: <<n, 0>> as the primary
\* of group n, <<n, k>> as its k-th satellite
C40_Places(groups, record) ==
  {<<n, 0>> : n \in C16_GroupsOf(groups, record)}
    \cup UNION { {<<n, k>> : k \in {k \in DOMAIN groups[n].satellites :
                                     groups[n].satellites[k] = record}} :
                 n \in DOMAIN groups }

\* C40: buildSessionGroups partitions the visible records: with
\* showingNoise = true every input record appears exactly once in the
\* output, as the primary or a satellite of exactly one group; with
\* showingNoise = false every input record that is not noise-classified
\* still appears exactly once; and the groups hold input records only.
C40_GroupsPartitionVisibleRecords ==
  callArgs.fn = "buildSessionGroups" /\ callResult # <<>>
    => /\ \A i \in DOMAIN callArgs.records :
            callArgs.showingNoise \/ ~C16_Noise(callArgs.records[i])
              => Cardinality(C40_Places(callResult[1],
                                        callArgs.records[i])) = 1
       /\ \A n \in DOMAIN callResult[1] :
            GroupMembers(callResult[1][n])
              \subseteq {callArgs.records[i] : i \in DOMAIN callArgs.records}

\* C40 witness: with showingNoise = false the list held three records of
\* one tab at one time, a normal one, a noise-classified one sharing its
\* host and a normal one of another host; two groups are returned.
C40_Witness ==
  /\ callArgs.fn = "buildSessionGroups"
  /\ callResult # <<>>
  /\ ~callArgs.showingNoise
  /\ Len(callArgs.records) = 3
  /\ callArgs.records[1] =
       [GroupRecord(1, FALSE, 0, "normal", "x1") EXCEPT !.ref = 1]
  /\ callArgs.records[2] =
       [GroupRecord(1, FALSE, 0, "likely-media", "xz2") EXCEPT !.ref = 2]
  /\ callArgs.records[3] =
       [GroupRecord(1, FALSE, 0, "normal", "z1") EXCEPT !.ref = 3]
  /\ Len(callResult[1]) = 2

=============================================================================
